---- MODULE Spec2Model ----
(***************************************************************************)
(* A model of the capture-and-dispatch pipeline of Jarvis                  *)
(* (src/app): the speech segmenter (voice/vad_stream.py), the command      *)
(* normalizer (voice/wakeword.py), the push-to-talk gate                   *)
(* (voice/keyboard.py), the intent router (llm/router.py), the action      *)
(* dispatcher (actions/executor.py) and the orchestrator (main.py).        *)
(*                                                                         *)
(* Every component has its own specification over the shared variables:    *)
(* SpecVAD, SpecNorm, SpecGate, SpecRoute, SpecExec and Spec (the          *)
(* orchestrator with its threads).                                         *)
(***************************************************************************)
EXTENDS Integers, Sequences, FiniteSets, TLC

None == "None"

(***************************************************************************)
(* Bounds of the model.                                                    *)
(***************************************************************************)
\* VADStream.num_padding_frames = int(padding_duration_ms / frame_duration_ms),
\* the ring buffer's maxlen; a constructor parameter (10 with the defaults).
num_padding_frames == 3
\* Frames fed to one VADStream.
MaxVadFrames == 14
\* Tokens concatenated into one raw command handed to normalize_command.
MaxTokens == 3
\* Key (or flags-changed) events delivered to one PushToTalk gate.
MaxKeyEvents == 5
\* Threads started on _process_audio.
MaxWorkers == 2
\* Blocks delivered to _audio_callback.
MaxAudioBlocks == 4
\* Changes other parties make to the system clipboard.
MaxClipChanges == 2

\* VADStream.speech_threshold = 0.8, kept as the fraction 8/10.
speech_threshold_num == 8
speech_threshold_den == 10

VARIABLES
    \* ---- VADStream (voice/vad_stream.py)
    ring_buffer,      \* deque(maxlen = num_padding_frames) of (frame, is_speech)
    triggered,        \* self.triggered
    voiced_frames,    \* self.voiced_frames
    vad_ret,          \* what the last process_frame call returned
    vad_fed,          \* the frames handed to process_frame so far, in order
    vad_segments,     \* the segments process_frame has returned so far, in order
    vad_reset,        \* the last reset(): how many frames had been fed, and the accumulated frames it discarded
    \* ---- normalize_command (voice/wakeword.py)
    norm_pc,          \* "in": not called yet, "out": called once, "again": called on its own output
    norm_in,          \* the command argument
    norm_out,         \* normalize_command(norm_in)
    norm_out2,        \* normalize_command(norm_out)
    \* ---- is_stop_command (voice/wakeword.py)
    stop_pc,          \* "in": not called yet, "out": is_stop_command has returned
    stop_in,          \* the command argument
    stop_out,         \* is_stop_command(stop_in)
    \* ---- PushToTalk / FnKeyDetector (voice/keyboard.py)
    use_fn,           \* PushToTalk._use_fn: the hotkey is "fn"
    held,             \* the physical keys that are down (the keyboard itself)
    pressed_keys,     \* PushToTalk._pressed_keys
    is_active,        \* PushToTalk.is_active
    fn_is_active,     \* FnKeyDetector.is_active
    cb_log,           \* the on_activate / on_deactivate calls made, in order
    key_hist,         \* the events delivered to the gate, in order
    \* ---- route_intent (llm/router.py)
    rt_pc,            \* "in": not called yet, "routed": route_intent has returned or raised
    rt_command,       \* the command argument
    rt_clip,          \* the clipboard_type argument
    rt_llm,           \* what llm_client.chat does when called
    rt_result,        \* what route_intent did
    \* ---- execute_action (actions/executor.py)
    ex_pc,            \* "in": not called yet, "out": execute_action has returned
    ex_response,      \* the response argument (an AssistantResponse)
    ex_clip,          \* the clipboard_content argument
    ex_memory,        \* memory_client is not None
    ex_env,           \* what each collaborator does when it is called
    ex_result,        \* the outcome of execute_action
    \* ---- Jarvis (main.py)
    running,          \* self.running
    recording,        \* self.recording
    audio_frames,     \* self.audio_frames
    audio_lock,       \* the thread holding self.audio_lock, or None
    audio_stream,     \* self.audio_stream is not None
    stream_state,     \* the input stream: "none" (not created), "active", "stopped" or "closed"
    listener,         \* self.ptt.listener is not None
    teardown,         \* what the calls of stop() have done so far
    processing,       \* self.processing
    ptt_listening,    \* the key listener started by self.ptt.start() is delivering events
    main_pc,          \* position of the main thread in run()
    listener_pc,      \* position of the key-listener thread in _start/_stop_recording
    audio_data,       \* the local audio_data of _stop_recording
    audio_pc,         \* position of the audio thread in _audio_callback
    audio_seq,        \* number of audio blocks delivered to _audio_callback so far
    workers,          \* the threads started on _process_audio, in start order
    trigger_in_cycle, \* a cycle has been running at every step of the current activation so far
    gate_lock,        \* the thread holding PushToTalk._lock, or None
    accepted,         \* the blocks _audio_callback took for the current recording (self.recording read True), in order
    \* ---- the system clipboard and ClipboardMonitor (clipboard.py)
    pasteboard,       \* NSPasteboard.generalPasteboard(): its changeCount, its content, the changes others made
    snapshot,         \* the locals clipboard_type, clipboard_content of _process_audio
    clip_reads,       \* what get_clipboard_content returned to _process_audio, call by call
    _last_change_count,  \* ClipboardMonitor._last_change_count
    _last_content,    \* ClipboardMonitor._last_content
    mon_call,         \* the last call made on the monitor
    mon_ret           \* what that call returned

vadVars == <<ring_buffer, triggered, voiced_frames, vad_ret, vad_fed, vad_segments, vad_reset>>
normVars == <<norm_pc, norm_in, norm_out, norm_out2>>
stopVars == <<stop_pc, stop_in, stop_out>>

gateVars == <<use_fn, held, pressed_keys, is_active, fn_is_active, cb_log, key_hist>>

routeVars == <<rt_pc, rt_command, rt_clip, rt_llm, rt_result>>

execVars == <<ex_pc, ex_response, ex_clip, ex_memory, ex_env, ex_result>>

appVars == <<running, recording, audio_frames, audio_lock, audio_stream, stream_state,
             listener, teardown, processing,
             ptt_listening, main_pc, listener_pc, audio_data, audio_pc, audio_seq,
             workers, trigger_in_cycle, gate_lock, accepted>>

clipVars == <<pasteboard, snapshot, clip_reads, _last_change_count, _last_content,
              mon_call, mon_ret>>

vars == <<vadVars, normVars, stopVars, gateVars, routeVars, execVars, appVars, clipVars>>

\* What the steps of one component leave alone.
notVad == <<normVars, stopVars, gateVars, routeVars, execVars, appVars, clipVars>>
notNorm == <<vadVars, stopVars, gateVars, routeVars, execVars, appVars, clipVars>>
notStop == <<vadVars, normVars, gateVars, routeVars, execVars, appVars, clipVars>>
notGate == <<vadVars, normVars, stopVars, routeVars, execVars, appVars, clipVars>>
notRoute == <<vadVars, normVars, stopVars, gateVars, execVars, appVars, clipVars>>
notExec == <<vadVars, normVars, stopVars, gateVars, routeVars, appVars, clipVars>>
notApp == <<vadVars, normVars, stopVars, gateVars, routeVars, execVars, clipVars>>
notClip == <<vadVars, normVars, stopVars, gateVars, routeVars, execVars, appVars>>

(***************************************************************************)
(* VADStream                                                               *)
(***************************************************************************)
\* A frame: its payload is identified by its position in the stream; speech is
\* the answer webrtcvad gives for it (vad.is_speech, an external decision).
Frame(n, s) == [id |-> n, speech |-> s]

\* What process_frame returns: None, or the bytes of a segment.
NoSegment == [kind |-> "none"]
Segment(data) == [kind |-> "segment", data |-> data]

\* b''.join(frames): the payloads concatenated in list order.
RECURSIVE Join(_)
Join(frames) ==
    IF frames = <<>> THEN <<>>
    ELSE <<Head(frames).id>> \o Join(Tail(frames))

\* deque.append with maxlen: the oldest entry falls out when the deque is full.
DequeAppend(dq, x) ==
    IF num_padding_frames = 0 THEN <<>>
    ELSE IF Len(dq) < num_padding_frames THEN Append(dq, x)
    ELSE Append(Tail(dq), x)

\* A count that does not look at the speech flags.
NumFrames(dq) == Len(dq)

\* sum(1 for f, speech in ring_buffer if speech) and its complement.
NumVoiced(dq) == Cardinality({i \in 1..Len(dq) : dq[i].speech})
NumUnvoiced(dq) == Cardinality({i \in 1..Len(dq) : ~dq[i].speech})

\* n > self.speech_threshold * self.ring_buffer.maxlen
OverThreshold(n) ==
    n * speech_threshold_den > speech_threshold_num * num_padding_frames

VadInit0 ==
    /\ ring_buffer = <<>>
    /\ triggered = FALSE
    /\ voiced_frames = <<>>
    /\ vad_ret = NoSegment
    /\ vad_fed = <<>>
    /\ vad_segments = <<>>
    /\ vad_reset = [at |-> 0, dropped |-> <<>>]

\* A process_frame that also hands back the buffered frames at the moment it
\* triggers.
process_frame_eager(frame) ==
    IF ~triggered
    THEN LET rb == DequeAppend(ring_buffer, frame)
         IN  IF OverThreshold(NumVoiced(rb))
             THEN /\ triggered' = TRUE
                  /\ voiced_frames' = rb
                  /\ ring_buffer' = <<>>
                  /\ vad_ret' = Segment(Join(rb))
             ELSE /\ ring_buffer' = rb
                  /\ vad_ret' = NoSegment
                  /\ UNCHANGED <<triggered, voiced_frames>>
    ELSE LET vf == Append(voiced_frames, frame)
             rb == DequeAppend(ring_buffer, frame)
         IN  IF OverThreshold(NumUnvoiced(rb))
             THEN /\ triggered' = FALSE
                  /\ vad_ret' = Segment(Join(vf))
                  /\ voiced_frames' = <<>>
                  /\ ring_buffer' = <<>>
             ELSE /\ voiced_frames' = vf
                  /\ ring_buffer' = rb
                  /\ vad_ret' = NoSegment
                  /\ UNCHANGED triggered

\* A process_frame that keeps the accumulated frames when it returns a
\* segment.
process_frame_keeping(frame) ==
    IF ~triggered
    THEN LET rb == DequeAppend(ring_buffer, frame)
         IN  /\ IF OverThreshold(NumVoiced(rb))
                THEN /\ triggered' = TRUE
                     /\ voiced_frames' = voiced_frames \o rb
                     /\ ring_buffer' = <<>>
                ELSE /\ ring_buffer' = rb
                     /\ UNCHANGED <<triggered, voiced_frames>>
             /\ vad_ret' = NoSegment
    ELSE LET vf == Append(voiced_frames, frame)
             rb == DequeAppend(ring_buffer, frame)
         IN  IF OverThreshold(NumUnvoiced(rb))
             THEN /\ triggered' = FALSE
                  /\ vad_ret' = Segment(Join(vf))
                  /\ voiced_frames' = vf
                  /\ ring_buffer' = <<>>
             ELSE /\ voiced_frames' = vf
                  /\ ring_buffer' = rb
                  /\ vad_ret' = NoSegment
                  /\ UNCHANGED triggered

\* The body of process_frame for one frame.
process_frame(frame) ==
    IF ~triggered
    THEN LET rb == DequeAppend(ring_buffer, frame)
         IN  /\ IF OverThreshold(NumVoiced(rb))
                THEN /\ triggered' = TRUE
                     /\ voiced_frames' = rb
                     /\ ring_buffer' = <<>>
                ELSE /\ ring_buffer' = rb
                     /\ UNCHANGED <<triggered, voiced_frames>>
             /\ vad_ret' = NoSegment
    ELSE LET vf == Append(voiced_frames, frame)
             rb == DequeAppend(ring_buffer, frame)
         IN  IF OverThreshold(NumUnvoiced(rb))
             THEN /\ triggered' = FALSE
                  /\ vad_ret' = Segment(Join(vf))
                  /\ voiced_frames' = <<>>
                  /\ ring_buffer' = <<>>
             ELSE /\ voiced_frames' = vf
                  /\ ring_buffer' = rb
                  /\ vad_ret' = NoSegment
                  /\ UNCHANGED triggered

ProcessFrame ==
    /\ Len(vad_fed) < MaxVadFrames
    /\ \E s \in BOOLEAN :
          LET frame == Frame(Len(vad_fed) + 1, s)
          IN  /\ process_frame(frame)
              /\ vad_fed' = Append(vad_fed, frame)
    /\ vad_segments' = IF vad_ret' # NoSegment THEN Append(vad_segments, vad_ret'.data)
                                               ELSE vad_segments
    /\ UNCHANGED vad_reset
    /\ UNCHANGED notVad

\* A reset that leaves the accumulated frames in place.
reset_flag_only ==
    /\ triggered' = FALSE
    /\ ring_buffer' = <<>>
    /\ UNCHANGED voiced_frames

\* The body of VADStream.reset
reset ==
    /\ triggered' = FALSE
    /\ voiced_frames' = <<>>
    /\ ring_buffer' = <<>>

\* VADStream.reset
VadReset ==
    /\ reset
    /\ vad_reset' = [at |-> Len(vad_fed), dropped |-> Join(voiced_frames)]
    /\ UNCHANGED <<vad_ret, vad_fed, vad_segments>>
    /\ UNCHANGED notVad

NextVAD == ProcessFrame \/ VadReset

(***************************************************************************)
(* Strings.  A Python str is a TLA+ string; Len, SubSeq and \o act on it   *)
(* as on a sequence of characters.                                         *)
(***************************************************************************)
CharAt(s, i) == SubSeq(s, i, i)

\* s[n:]
Drop(s, n) == SubSeq(s, n + 1, Len(s))

\* s[:n]
Take(s, n) == IF Len(s) <= n THEN s ELSE SubSeq(s, 1, n)

\* str.lower() of one character (ASCII letters).
LowerChar(c) ==
    CASE c = "A" -> "a" [] c = "B" -> "b" [] c = "C" -> "c" [] c = "D" -> "d"
      [] c = "E" -> "e" [] c = "F" -> "f" [] c = "G" -> "g" [] c = "H" -> "h"
      [] c = "I" -> "i" [] c = "J" -> "j" [] c = "K" -> "k" [] c = "L" -> "l"
      [] c = "M" -> "m" [] c = "N" -> "n" [] c = "O" -> "o" [] c = "P" -> "p"
      [] c = "Q" -> "q" [] c = "R" -> "r" [] c = "S" -> "s" [] c = "T" -> "t"
      [] c = "U" -> "u" [] c = "V" -> "v" [] c = "W" -> "w" [] c = "X" -> "x"
      [] c = "Y" -> "y" [] c = "Z" -> "z" [] OTHER -> c

\* str.lower()
RECURSIVE LowerStr(_)
LowerStr(s) ==
    IF s = "" THEN "" ELSE LowerChar(CharAt(s, 1)) \o LowerStr(Drop(s, 1))

\* str.isspace() of one character.
IsSpace(c) == c \in {" ", "\t", "\n"}

\* str.startswith
StartsWith(s, p) == Len(s) >= Len(p) /\ SubSeq(s, 1, Len(p)) = p

\* p in s
Contains(s, p) ==
    \E i \in 0..(Len(s) - Len(p)) : SubSeq(s, i + 1, i + Len(p)) = p

RECURSIVE LStrip(_)
LStrip(s) == IF s # "" /\ IsSpace(CharAt(s, 1)) THEN LStrip(Drop(s, 1)) ELSE s

RECURSIVE RStrip(_)
RStrip(s) ==
    IF s # "" /\ IsSpace(CharAt(s, Len(s))) THEN RStrip(Take(s, Len(s) - 1)) ELSE s

\* str.strip()
Strip(s) == RStrip(LStrip(s))

\* The leading run of non-whitespace characters of s.
RECURSIVE WordAt(_)
WordAt(s) ==
    IF s = "" \/ IsSpace(CharAt(s, 1)) THEN ""
    ELSE CharAt(s, 1) \o WordAt(Drop(s, 1))

\* str.split(): the maximal runs of non-whitespace characters, in order.
RECURSIVE Split(_)
Split(s) ==
    LET t == LStrip(s)
    IN  IF t = "" THEN <<>>
        ELSE <<WordAt(t)>> \o Split(Drop(t, Len(WordAt(t))))

\* " ".join(words)
RECURSIVE JoinSpace(_)
JoinSpace(words) ==
    IF words = <<>> THEN ""
    ELSE IF Len(words) = 1 THEN words[1]
    ELSE words[1] \o " " \o JoinSpace(Tail(words))

(***************************************************************************)
(* normalize_command (voice/wakeword.py)                                   *)
(***************************************************************************)
fillers == <<"please", "can you", "could you", "would you", "uh", "um", "like">>

\* One iteration of the loop over fillers.
StripFiller(command, filler) ==
    IF StartsWith(LowerStr(command), filler)
    THEN LET c1 == Strip(Drop(command, Len(filler)))
         IN  IF StartsWith(c1, ",") THEN Strip(Drop(c1, 1)) ELSE c1
    ELSE command

\* for filler in fillers: ...   (each filler is tried once, in list order)
RECURSIVE StripFillers(_, _)
StripFillers(command, fs) ==
    IF fs = <<>> THEN command
    ELSE StripFillers(StripFiller(command, Head(fs)), Tail(fs))

normalize_command(command) ==
    JoinSpace(Split(StripFillers(Strip(command), fillers)))

\* The raw commands the model hands to normalize_command: up to MaxTokens of
\* these pieces, concatenated.
NormTokens ==
    { "um", "UM", "uh", "please", "Please", "like", "can you", "umbrella",
      "copy", " ", " \t ", "," }

RECURSIVE Concat(_)
Concat(ts) == IF ts = <<>> THEN "" ELSE Head(ts) \o Concat(Tail(ts))

NormInputs ==
    { Concat(ts) : ts \in UNION { [1..n -> NormTokens] : n \in 0..MaxTokens } }

NormInit0 ==
    /\ norm_pc = "in"
    /\ norm_in = ""
    /\ norm_out = ""
    /\ norm_out2 = ""

\* command = normalize_command(command)
Normalize ==
    /\ norm_pc = "in"
    /\ norm_out' = normalize_command(norm_in)
    /\ norm_pc' = "out"
    /\ UNCHANGED <<norm_in, norm_out2>>
    /\ UNCHANGED notNorm

\* normalize_command applied to its own result.
NormalizeAgain ==
    /\ norm_pc = "out"
    /\ norm_out2' = normalize_command(norm_out)
    /\ norm_pc' = "again"
    /\ UNCHANGED <<norm_in, norm_out>>
    /\ UNCHANGED notNorm

NextNorm == Normalize \/ NormalizeAgain

(***************************************************************************)
(* is_stop_command (voice/wakeword.py)                                     *)
(***************************************************************************)
stop_phrases ==
    <<"stop", "exit", "quit", "goodbye", "bye", "shut down", "shutdown",
      "go away", "nevermind", "never mind", "cancel">>

\* A variant that accepts a command containing a stop phrase.
is_stop_command_substring(command) ==
    \E i \in 1..Len(stop_phrases) :
        Contains(Strip(LowerStr(command)), stop_phrases[i])

\* command_lower = command.lower().strip(); return command_lower in stop_phrases
is_stop_command(command) ==
    LET command_lower == Strip(LowerStr(command))
    IN  \E i \in 1..Len(stop_phrases) : stop_phrases[i] = command_lower

\* The commands the model hands to is_stop_command: up to MaxTokens of these
\* pieces, concatenated.
StopTokens ==
    { "stop", "Stop", "STOP", "bye", "Good", "never", "mind", "shut", "down",
      "the music", "non", ".", " ", "\t" }

StopInputs ==
    { Concat(ts) : ts \in UNION { [1..n -> StopTokens] : n \in 0..MaxTokens } }

StopInit0 ==
    /\ stop_pc = "in"
    /\ stop_in = ""
    /\ stop_out = FALSE

\* is_stop_command(command)
IsStopCommand ==
    /\ stop_pc = "in"
    /\ stop_out' = is_stop_command(stop_in)
    /\ stop_pc' = "out"
    /\ UNCHANGED stop_in
    /\ UNCHANGED notStop

NextStop == IsStopCommand


(***************************************************************************)
(* PushToTalk and FnKeyDetector (voice/keyboard.py).  The listener thread  *)
(* delivers one event at a time to _on_press / _on_release (or, for the    *)
(* "fn" hotkey, to FnKeyDetector._event_callback).                         *)
(***************************************************************************)
\* The physical keys of the model's keyboard.
PhysKeys == {"cmd_l", "cmd_r", "shift_l", "alt_l", "kj", "kk"}

\* The key object pynput hands to the callbacks for a physical key: a Key for
\* a modifier, a KeyCode whose char depends on shift for a letter.
KeyValue(pk, down) ==
    CASE pk = "cmd_l" -> "Key.cmd"
      [] pk = "cmd_r" -> "Key.cmd_r"
      [] pk = "shift_l" -> "Key.shift"
      [] pk = "alt_l" -> "Key.alt"
      [] pk = "kj" -> IF "shift_l" \in down THEN "J" ELSE "j"
      [] pk = "kk" -> IF "shift_l" \in down THEN "K" ELSE "k"

\* self._modifier_map, on the keys of the model.
modifier_map ==
    [k \in {"Key.cmd", "Key.cmd_r", "Key.shift", "Key.alt"} |->
        CASE k = "Key.cmd" -> "cmd"
          [] k = "Key.cmd_r" -> "cmd"
          [] k = "Key.shift" -> "shift"
          [] k = "Key.alt" -> "alt"]

\* isinstance(key, keyboard.KeyCode) and key.char
IsKeyCode(key) == key \in {"j", "J", "k", "K"}

\* key.char.lower()
CharLower(key) ==
    CASE key = "J" -> "j"
      [] key = "K" -> "k"
      [] OTHER -> key

\* _parse_hotkey("cmd+shift+j"), the default hotkey.
required_modifiers == {"cmd", "shift"}
trigger_key == "j"

_get_current_modifiers(pressed) ==
    {modifier_map[k] : k \in pressed \cap DOMAIN modifier_map}

\* The trigger key is a character here (not an F-key).
TriggerMatch(key) == IsKeyCode(key) /\ CharLower(key) = trigger_key

\* A match that only asks for the required modifiers to be among those held.
_check_hotkey_match_subset(key, pressed) ==
    /\ TriggerMatch(key)
    /\ required_modifiers \subseteq _get_current_modifiers(pressed)

_check_hotkey_match(key, pressed) ==
    /\ TriggerMatch(key)
    /\ _get_current_modifiers(pressed) = required_modifiers

\* An _on_press that does not look at is_active.
_on_press_unguarded(key) ==
    LET pressed == pressed_keys \cup {key}
    IN  /\ pressed_keys' = pressed
        /\ IF _check_hotkey_match(key, pressed)
           THEN /\ is_active' = TRUE
                /\ cb_log' = Append(cb_log, "activate")
           ELSE UNCHANGED <<is_active, cb_log>>

\* PushToTalk._on_press(key)
_on_press(key) ==
    LET pressed == pressed_keys \cup {key}
    IN  /\ pressed_keys' = pressed
        /\ IF _check_hotkey_match(key, pressed) /\ ~is_active
           THEN /\ is_active' = TRUE
                /\ cb_log' = Append(cb_log, "activate")
           ELSE UNCHANGED <<is_active, cb_log>>

\* An _on_release that deactivates on the release of any key.
_on_release_any(key) ==
    /\ pressed_keys' = pressed_keys \ {key}
    /\ IF is_active
       THEN /\ is_active' = FALSE
            /\ cb_log' = Append(cb_log, "deactivate")
       ELSE UNCHANGED <<is_active, cb_log>>

\* An _on_release that deactivates on the trigger key only.
_on_release_trigger_only(key) ==
    /\ pressed_keys' = pressed_keys \ {key}
    /\ IF is_active /\ TriggerMatch(key)
       THEN /\ is_active' = FALSE
            /\ cb_log' = Append(cb_log, "deactivate")
       ELSE UNCHANGED <<is_active, cb_log>>

\* PushToTalk._on_release(key)
_on_release(key) ==
    LET trigger_released == TriggerMatch(key)
        modifier_released ==
            /\ key \in DOMAIN modifier_map
            /\ modifier_map[key] \in required_modifiers
    IN  /\ pressed_keys' = pressed_keys \ {key}
        /\ IF is_active /\ (trigger_released \/ modifier_released)
           THEN /\ is_active' = FALSE
                /\ cb_log' = Append(cb_log, "deactivate")
           ELSE UNCHANGED <<is_active, cb_log>>

\* FnKeyDetector._event_callback with fn_pressed = bool(flags & 0x800000)
_event_callback(fn_pressed) ==
    IF fn_pressed /\ ~fn_is_active
    THEN /\ fn_is_active' = TRUE
         /\ cb_log' = Append(cb_log, "activate")
    ELSE IF ~fn_pressed /\ fn_is_active
    THEN /\ fn_is_active' = FALSE
         /\ cb_log' = Append(cb_log, "deactivate")
    ELSE UNCHANGED <<fn_is_active, cb_log>>

GateInit0 ==
    /\ use_fn = FALSE
    /\ held = {}
    /\ pressed_keys = {}
    /\ is_active = FALSE
    /\ fn_is_active = FALSE
    /\ cb_log = <<>>
    /\ key_hist = <<>>

\* A key goes down, or auto-repeats while it is held.
KeyPress ==
    /\ ~use_fn
    /\ Len(key_hist) < MaxKeyEvents
    /\ \E pk \in PhysKeys :
          /\ held' = held \cup {pk}
          /\ _on_press(KeyValue(pk, held'))
          /\ key_hist' = Append(key_hist, <<"press", pk>>)
    /\ UNCHANGED <<use_fn, fn_is_active>>
    /\ UNCHANGED notGate

\* A held key goes up.
KeyRelease ==
    /\ ~use_fn
    /\ Len(key_hist) < MaxKeyEvents
    /\ \E pk \in held :
          /\ held' = held \ {pk}
          /\ _on_release(KeyValue(pk, held))
          /\ key_hist' = Append(key_hist, <<"release", pk>>)
    /\ UNCHANGED <<use_fn, fn_is_active>>
    /\ UNCHANGED notGate

\* A flags-changed event reaches the event tap; the Fn flag is set or not.
FnFlagsChanged ==
    /\ use_fn
    /\ Len(key_hist) < MaxKeyEvents
    /\ \E fn_pressed \in BOOLEAN :
          /\ _event_callback(fn_pressed)
          /\ key_hist' = Append(key_hist, <<"flags", fn_pressed>>)
    /\ UNCHANGED <<use_fn, held, pressed_keys, is_active>>
    /\ UNCHANGED notGate

NextGate == KeyPress \/ KeyRelease \/ FnFlagsChanged

(***************************************************************************)
(* Intent router (llm/router.py, llm/schemas.py)                           *)
(***************************************************************************)
\* class ActionType
ActionTypes ==
    { "COPY_TEXT_TO_CLIPBOARD", "SHORT_REPLY", "NO_ACTION", "SCREENSHOT_TO_CODE",
      "STRUCTURE_DATA", "DEBUG_CODE", "REWRITE_TEXT", "REMOVE_BACKGROUND",
      "TRANSLATE", "SAVE_TO_MEMORY", "SEARCH_MEMORY", "DELETE_MEMORY",
      "CLEAR_MEMORY", "CLIPBOARD_UTILITY" }

\* validate_action_compatibility's two sets.
image_required_actions == {"SCREENSHOT_TO_CODE", "REMOVE_BACKGROUND"}
text_required_actions ==
    {"STRUCTURE_DATA", "DEBUG_CODE", "REWRITE_TEXT", "TRANSLATE", "CLIPBOARD_UTILITY"}

\* AssistantResponse.message: Field(max_length=50)
MaxMessageLen == 50

\* None in an Optional[...Params] field.
NoParams == [none |-> TRUE]

\* class MemoryParams
MemoryParams(operation, query, label, category) ==
    [operation |-> operation, query |-> query, label |-> label, category |-> category]

\* An AssistantResponse with its defaults; thinking and emoji, which nothing
\* reads, are left out.
DefaultResponse ==
    [ action_type |-> "NO_ACTION", message |-> "", content |-> None,
      screenshot_to_code |-> NoParams, data_structuring |-> NoParams,
      debug_code |-> NoParams, rewrite |-> NoParams, translate |-> NoParams,
      memory |-> NoParams, clipboard_utility |-> NoParams ]

\* Outcomes of a call: a value, or an exception that propagates.
Ok(v) == [kind |-> "ok", value |-> v]
Raise(e) == [kind |-> "raise", error |-> e]

\* AssistantResponse(...): pydantic validates the fields it is given; a message
\* longer than max_length raises ValidationError.
AssistantResponse(r) ==
    IF Len(r.message) > MaxMessageLen THEN Raise("ValidationError") ELSE Ok(r)

\* any(phrase in command_lower for phrase in phrases)
AnyPhrase(command_lower, phrases) ==
    \E phrase \in phrases : Contains(command_lower, phrase)

\* words[-2:]
LastTwo(words) ==
    IF Len(words) <= 2 THEN words ELSE SubSeq(words, Len(words) - 1, Len(words))

\* x in list
InSeq(x, xs) == \E i \in 1..Len(xs) : xs[i] = x

\* quick_classify(command): the action of the first rule that matches, or None.
\* The phrases of the save rule and of the search rule.
save_phrases ==
    {"remember this", "save this", "store this", "keep this", "save to memory"}

search_phrases ==
    {"what's my", "what is my", "whats my", "where did i save", "find my",
     "search memory", "recall", "get my", "show my", "retrieve my", "look up my"}

\* The last rule of quick_classify.
structure_rule(command_lower) ==
    IF AnyPhrase(command_lower,
          {"convert to json", "convert to csv", "to json", "to csv",
           "make this json", "make this csv"})
    THEN "STRUCTURE_DATA"
    ELSE None

\* A variant that tries the search rule before the save rule.
search_or_save(command_lower) ==
    IF AnyPhrase(command_lower, search_phrases) THEN "SEARCH_MEMORY"
    ELSE IF AnyPhrase(command_lower, save_phrases) THEN "SAVE_TO_MEMORY"
    ELSE structure_rule(command_lower)

\* "Memory: Save - must check BEFORE search", then the search rule, then the
\* data-structure rule.
save_or_search(command_lower) ==
    IF AnyPhrase(command_lower, save_phrases) THEN "SAVE_TO_MEMORY"
    ELSE IF AnyPhrase(command_lower, search_phrases) THEN "SEARCH_MEMORY"
    ELSE structure_rule(command_lower)

quick_classify(command) ==
    LET command_lower == LowerStr(command)
    IN  IF AnyPhrase(command_lower,
              {"remove background", "remove the background", "transparent"})
        THEN "REMOVE_BACKGROUND"
        ELSE IF AnyPhrase(command_lower,
              {"code this", "make this react", "convert to react", "tailwind this",
               "make this html"})
        THEN "SCREENSHOT_TO_CODE"
        ELSE IF AnyPhrase(command_lower,
              {"clear all memory", "clear memory", "delete all memory",
               "erase memory", "wipe memory"})
        THEN "CLEAR_MEMORY"
        ELSE IF /\ AnyPhrase(command_lower,
                      {"delete the", "forget my", "remove from memory", "delete my"})
                /\ ~InSeq("memory", LastTwo(Split(command_lower)))
        THEN "DELETE_MEMORY"
        ELSE save_or_search(command_lower)

\* re.search(r'(?:alt1|alt2|...)(.+?)(?:terminator)', s).group(1), or None:
\* the leftmost position where an alternative matches and at least one more
\* character follows; there the first such alternative in order, and the
\* shortest group after which Term holds (the end of the string always ends it).
AllSpace(s) == \A i \in 1..Len(s) : IsSpace(CharAt(s, i))

AltsAt(s, i, alts) ==
    { k \in 1..Len(alts) :
         /\ i + Len(alts[k]) <= Len(s)
         /\ SubSeq(s, i, i + Len(alts[k]) - 1) = alts[k] }

Min(S) == CHOOSE x \in S : \A y \in S : x <= y

\* (?:\s*$|\.) : only whitespace is left, or a full stop comes next.
LabelTerm(rest) == AllSpace(rest) \/ StartsWith(rest, ".")

\* (?:\s*\?|$) : whitespace and a question mark come next, or nothing is left.
QueryTerm(rest) == StartsWith(LStrip(rest), "?") \/ rest = ""

\* The terminator of the pattern named term matches at the start of rest.
TermAt(term, rest) == IF term = "label" THEN LabelTerm(rest) ELSE QueryTerm(rest)

RegexGroup(s, alts, term) ==
    LET starts == { i \in 1..Len(s) : AltsAt(s, i, alts) # {} }
    IN  IF starts = {} THEN None
        ELSE LET i == Min(starts)
                 k == Min(AltsAt(s, i, alts))
                 g == i + Len(alts[k])
                 e == Min({ j \in g..Len(s) : j = Len(s) \/ TermAt(term, Drop(s, j)) })
             IN  SubSeq(s, g, e)

\* _build_quick_response: the label for memory operations.
ExtractLabel(command) ==
    LET m == RegexGroup(LowerStr(command), <<"as my ", "as ", "my ">>, "label")
    IN  IF m = None THEN None ELSE Strip(m)

\* _build_quick_response: the search query.
ExtractQuery(command) ==
    LET m == RegexGroup(LowerStr(command),
                 <<"what's my ", "whats my ", "what is my ", "find my ", "get my ">>,
                 "query")
    IN  IF m = None THEN command ELSE Strip(m)

\* x or default
OrElse(x, default) == IF x = None \/ x = "" THEN default ELSE x

_build_quick_response(action_type, command) ==
    LET label == ExtractLabel(command)
        query == ExtractQuery(command)
        base == [DefaultResponse EXCEPT !.action_type = action_type]
    IN  CASE action_type = "SAVE_TO_MEMORY" ->
               AssistantResponse([base EXCEPT
                   !.message = "Saving as " \o OrElse(label, "note"),
                   !.memory = MemoryParams("save", None, label, "important_info")])
          [] action_type = "SEARCH_MEMORY" ->
               AssistantResponse([base EXCEPT
                   !.message = "Searching for " \o query,
                   !.memory = MemoryParams("search", query, None, "note")])
          [] action_type = "DELETE_MEMORY" ->
               AssistantResponse([base EXCEPT
                   !.message = "Deleting " \o query,
                   !.memory = MemoryParams("delete", query, None, "note")])
          [] action_type = "CLEAR_MEMORY" ->
               AssistantResponse([base EXCEPT
                   !.message = "Clearing all memory",
                   !.memory = MemoryParams("clear", None, None, "note")])
          [] action_type = "STRUCTURE_DATA" ->
               \* The parameters are passed as structure_data=..., which is no field
               \* of AssistantResponse (the field is data_structuring): pydantic
               \* ignores the extra keyword and data_structuring stays None.
               AssistantResponse([base EXCEPT
                   !.message = "Converting to " \o
                       (IF Contains(LowerStr(command), "json") THEN "json" ELSE "csv")])
          [] OTHER ->
               AssistantResponse([base EXCEPT !.message = "Processing..."])

\* A variant that returns every response as it is.
validate_nothing(response, clipboard_type) == response

validate_action_compatibility(response, clipboard_type) ==
    IF response.action_type \in image_required_actions /\ clipboard_type # "image"
    THEN [DefaultResponse EXCEPT
             !.action_type = "SHORT_REPLY", !.message = "Copy an image first"]
    ELSE IF response.action_type \in text_required_actions /\ clipboard_type # "text"
    THEN [DefaultResponse EXCEPT
             !.action_type = "SHORT_REPLY", !.message = "Copy some text first"]
    ELSE response

\* A router that answers with a short reply when the LLM call fails.
route_intent_fallback(command, clipboard_type, llm) ==
    LET quick_action == quick_classify(command)
    IN  IF quick_action # None
        THEN [out |-> _build_quick_response(quick_action, command), llm_calls |-> 0]
        ELSE IF llm.kind = "raise"
        THEN [out |-> Ok([DefaultResponse EXCEPT !.action_type = "SHORT_REPLY",
                                                 !.message = "Try again"]),
              llm_calls |-> 1]
        ELSE [out |-> Ok(validate_action_compatibility(llm.value, clipboard_type)),
              llm_calls |-> 1]

\* route_intent(command, clipboard_type, ...).  llm is what llm_client.chat
\* does if it is called: Ok(response) or Raise(error).  The result carries the
\* number of LLM calls made.
route_intent(command, clipboard_type, llm) ==
    LET quick_action == quick_classify(command)
    IN  IF quick_action # None
        THEN [out |-> _build_quick_response(quick_action, command), llm_calls |-> 0]
        ELSE IF llm.kind = "raise"
        THEN [out |-> llm, llm_calls |-> 1]
        ELSE [out |-> Ok(validate_action_compatibility(llm.value, clipboard_type)),
              llm_calls |-> 1]

\* The commands the model routes.
RouteCommands ==
    { "remove background", "make it transparent please", "code this",
      "clear memory", "delete my wifi password", "delete the memory",
      "remember this as my wifi password", "save this",
      "remember this what's my name", "what's my wifi password",
      "what is my email address?", "find my keys", "recall",
      "convert to json", "convert to csv", "make this formal",
      "translate to french", "fix this code", "hello",
      "remember this as my extremely long and detailed home wifi password",
      "save this and find my keys", "What's my name? Remember this",
      "recall and store this" }

ClipboardTypes == {"text", "image", "empty"}

\* What get_clipboard_content returns for each type.
ClipContent(clipboard_type) ==
    CASE clipboard_type = "text" -> "clip text"
      [] clipboard_type = "image" -> "<Image>"
      [] OTHER -> None

\* What the LLM collaborator may answer: it raises, or returns a response that
\* fits the schema (action_type is a free string there).
LLMResponses ==
    { [DefaultResponse EXCEPT !.action_type = a, !.message = "Done", !.content = c] :
          a \in ActionTypes \cup {"CALCULATE"}, c \in {None, "llm text"} }

LLMOutcomes == {Raise("LLMError")} \cup {Ok(r) : r \in LLMResponses}

RouteInit0 ==
    /\ rt_pc = "in"
    /\ rt_command = ""
    /\ rt_clip = "empty"
    /\ rt_llm = Raise("LLMError")
    /\ rt_result = None

\* response = route_intent(command, clipboard_type, clipboard_content, ...)
Route ==
    /\ rt_pc = "in"
    /\ rt_result' = route_intent(rt_command, rt_clip, rt_llm)
    /\ rt_pc' = "routed"
    /\ UNCHANGED <<rt_command, rt_clip, rt_llm>>
    /\ UNCHANGED notRoute

NextRoute == Route

(***************************************************************************)
(* Action dispatcher (actions/executor.py).  A handler's outcome is an     *)
(* effect record: what it returned (or that it raised), the notifications  *)
(* it showed, the clipboard writes that took place and the collaborator    *)
(* calls it made, each in order.  env says what each collaborator does     *)
(* when it is called.                                                      *)
(***************************************************************************)
Eff(success, message, notes, writes, calls) ==
    [ kind |-> "return", success |-> success, message |-> message,
      notifications |-> notes, clip_writes |-> writes, calls |-> calls ]

\* The handler let an exception escape after making these calls.
EffRaise(error, calls) ==
    [ kind |-> "raise", error |-> error, success |-> FALSE, message |-> "",
      notifications |-> <<>>, clip_writes |-> <<>>, calls |-> calls ]

Call(fn, args) == [fn |-> fn, args |-> args]

notify_success(m) == <<"success", m>>
notify_error(m) == <<"error", m>>
notify_info(m) == <<"info", m>>

\* bool(x) of an optional string.
Truthy(x) == x # None /\ x # ""

\* A check that takes whatever the clipboard holds for text, as a handler
\* would that relied on the router's validation.
TakenForStr(clipboard_content) == TRUE

\* isinstance(clipboard_content, str) / isinstance(clipboard_content, Image.Image)
IsStr(clipboard_content) == clipboard_content \notin {None, "<Image>"}
IsImage(clipboard_content) == clipboard_content = "<Image>"

\* What an action-specific collaborator returns under env.collab.
CollabValue(env, value) ==
    CASE env.collab = "value" -> value
      [] env.collab = "empty" -> ""
      [] OTHER -> None

\* result[:80] + "..." if len(result) > 80 else result
Preview(result) == IF Len(result) > 80 THEN Take(result, 80) \o "..." ELSE result

\* A tail that returns the failure of the copy without telling the user.
CopyTextTailSilent(env, result, calls, okNote, okMsg, failNote, failMsg) ==
    LET calls2 == Append(calls, Call("copy_text_to_clipboard", <<result>>))
    IN  IF env.copy_ok
        THEN Eff(TRUE, okMsg, <<notify_success(okNote)>>, <<[kind |-> "text", data |-> result]>>, calls2)
        ELSE Eff(FALSE, failMsg, <<>>, <<>>, calls2)

\* The common tail of the handlers that copy a text result: copy it, notify,
\* return.
CopyTextTail(env, result, calls, okNote, okMsg, failNote, failMsg) ==
    LET calls2 == Append(calls, Call("copy_text_to_clipboard", <<result>>))
    IN  IF env.copy_ok
        THEN Eff(TRUE, okMsg, <<notify_success(okNote)>>, <<[kind |-> "text", data |-> result]>>, calls2)
        ELSE Eff(FALSE, failMsg, <<notify_error(failNote)>>, <<>>, calls2)

_handle_copy_text(response, env) ==
    IF ~Truthy(response.content)
    THEN Eff(FALSE, "No content provided", <<notify_error("No content to copy")>>, <<>>, <<>>)
    ELSE CopyTextTail(env, response.content, <<>>, response.message, response.message,
                      "Failed to copy", "Failed to copy to clipboard")

_handle_short_reply(response) ==
    Eff(TRUE, response.message, <<notify_info(response.message)>>, <<>>, <<>>)

_handle_no_action(response) ==
    Eff(TRUE, OrElse(response.message, "No action needed"),
        IF Truthy(response.message) THEN <<notify_info(response.message)>> ELSE <<>>,
        <<>>, <<>>)

_handle_screenshot_to_code(response, clipboard_content, env) ==
    IF ~IsImage(clipboard_content)
    THEN Eff(FALSE, "Clipboard does not contain an image",
             <<notify_error("Need an image in clipboard")>>, <<>>, <<>>)
    ELSE LET params == response.screenshot_to_code
             target == IF params # NoParams THEN params.target ELSE "react_tailwind"
             component_name == IF params # NoParams THEN params.component_name ELSE "Component"
             calls == <<Call("screenshot_to_code", <<clipboard_content, target, component_name>>)>>
             code == CollabValue(env, "<code>")
         IN  IF env.collab = "raise" THEN EffRaise("collaborator", calls)
             ELSE IF Truthy(code)
             THEN CopyTextTail(env, code, calls, OrElse(response.message, "Code copied"),
                      "Screenshot converted to code",
                      "Failed to copy code", "Failed to copy code to clipboard")
             ELSE Eff(FALSE, "Failed to generate code from screenshot",
                      <<notify_error("Failed to generate code")>>, <<>>, calls)

\* A variant that calls the collaborator whether or not the router provided
\* content.
AlwaysCollab(response, env, call, value) ==
    [raised |-> env.collab = "raise", result |-> CollabValue(env, value),
     calls |-> <<call>>]

\* if response.content: result = response.content; else: result =
\* <collaborator>(...): the result, the calls made, and whether the
\* collaborator raised.
ContentOrCollab(response, env, call, value) ==
    IF Truthy(response.content)
    THEN [raised |-> FALSE, result |-> response.content, calls |-> <<>>]
    ELSE [raised |-> env.collab = "raise", result |-> CollabValue(env, value),
          calls |-> <<call>>]

\* notify_error("Need ... in clipboard"); return False, "Clipboard does not
\* contain text"
NeedText(note) ==
    Eff(FALSE, "Clipboard does not contain text", <<notify_error(note)>>, <<>>, <<>>)

\* str.upper() of the target formats.
UpperFormat(f) ==
    CASE f = "json" -> "JSON" [] f = "csv" -> "CSV" [] f = "sql" -> "SQL" [] OTHER -> f

_handle_structure_data(response, clipboard_content, env) ==
    IF ~IsStr(clipboard_content) THEN NeedText("Need text in clipboard")
    ELSE LET params == response.data_structuring
             target_format == IF params # NoParams THEN params.target_format ELSE "json"
             sql_dialect == IF params # NoParams THEN params.sql_dialect ELSE "postgres"
             r == ContentOrCollab(response, env,
                      Call("structure_data", <<clipboard_content, target_format, sql_dialect>>),
                      "<structured>")
         IN  IF r.raised THEN EffRaise("collaborator", r.calls)
             ELSE IF Truthy(r.result)
             THEN CopyTextTail(env, r.result, r.calls,
                      UpperFormat(target_format) \o ": " \o Preview(r.result),
                      "Data structured as " \o target_format,
                      "Failed to copy", "Failed to copy structured data")
             ELSE Eff(FALSE, "Failed to structure data",
                      <<notify_error("Failed to structure data")>>, <<>>, r.calls)

_handle_debug_code(response, clipboard_content, env) ==
    IF ~IsStr(clipboard_content) THEN NeedText("Need code in clipboard")
    ELSE LET params == response.debug_code
             mode == IF params # NoParams THEN params.mode ELSE "fix_only"
             r == ContentOrCollab(response, env,
                      Call("debug_code", <<clipboard_content, mode>>), "<fixed code>")
         IN  IF r.raised THEN EffRaise("collaborator", r.calls)
             ELSE IF Truthy(r.result)
             THEN CopyTextTail(env, r.result, r.calls,
                      "Code fixed and copied!", "Code debugged/fixed",
                      "Failed to copy", "Failed to copy fixed code")
             ELSE Eff(FALSE, "Failed to debug code",
                      <<notify_error("Failed to debug code")>>, <<>>, r.calls)

_handle_rewrite_text(response, clipboard_content, env) ==
    IF ~IsStr(clipboard_content) THEN NeedText("Need text in clipboard")
    ELSE LET params == response.rewrite
             tone == IF params # NoParams THEN params.tone ELSE "professional"
             length == IF params # NoParams THEN params.length ELSE "same"
             r == ContentOrCollab(response, env,
                      Call("rewrite_text", <<clipboard_content, tone, length>>), "<rewritten>")
         IN  IF r.raised THEN EffRaise("collaborator", r.calls)
             ELSE IF Truthy(r.result)
             THEN CopyTextTail(env, r.result, r.calls,
                      Preview(r.result), "Text rewritten",
                      "Failed to copy", "Failed to copy rewritten text")
             ELSE Eff(FALSE, "Failed to rewrite text",
                      <<notify_error("Failed to rewrite text")>>, <<>>, r.calls)

_handle_translate(response, clipboard_content, env) ==
    IF ~IsStr(clipboard_content) THEN NeedText("Need text in clipboard")
    ELSE LET params == response.translate
             target_language == IF params # NoParams THEN params.target_language ELSE "english"
             r == ContentOrCollab(response, env,
                      Call("translate_text", <<clipboard_content, target_language>>),
                      "<translated>")
         IN  IF r.raised THEN EffRaise("collaborator", r.calls)
             ELSE IF Truthy(r.result)
             THEN CopyTextTail(env, r.result, r.calls,
                      Preview(r.result), "Translated to " \o target_language,
                      "Failed to copy", "Failed to copy translation")
             ELSE Eff(FALSE, "Failed to translate text",
                      <<notify_error("Failed to translate")>>, <<>>, r.calls)

_handle_remove_background(response, clipboard_content, env) ==
    IF ~IsImage(clipboard_content)
    THEN Eff(FALSE, "Clipboard does not contain an image",
             <<notify_error("Need an image in clipboard")>>, <<>>, <<>>)
    ELSE LET calls == <<Call("remove_background", <<clipboard_content>>)>>
             calls2 == Append(calls, Call("copy_image_to_clipboard", <<"<Image no bg>">>))
         IN  IF env.collab = "raise" THEN EffRaise("collaborator", calls)
             ELSE IF env.collab = "value"
             THEN IF env.copy_ok
                  THEN Eff(TRUE, "Background removed",
                           <<notify_success(OrElse(response.message, "Background removed"))>>,
                           <<[kind |-> "image", data |-> "<Image no bg>"]>>, calls2)
                  ELSE Eff(FALSE, "Failed to copy image to clipboard",
                           <<notify_error("Failed to copy image")>>, <<>>, calls2)
             ELSE Eff(FALSE, "Failed to remove background",
                      <<notify_error("Failed to remove background")>>, <<>>, calls)

MemoryDisabled ==
    Eff(FALSE, "Memory feature is not enabled", <<notify_error("Memory not enabled")>>, <<>>, <<>>)

\* memory_store.save_to_memory: memory_client.add inside try/except.
_handle_save_to_memory(response, clipboard_content, memory_enabled, env) ==
    IF ~memory_enabled THEN MemoryDisabled
    ELSE LET content == IF clipboard_content # None THEN clipboard_content ELSE ""
             params == response.memory
             label == IF params # NoParams THEN params.label ELSE None
             category == IF params # NoParams THEN params.category ELSE "note"
             calls == <<Call("memory.add", <<content, label, category>>)>>
         IN  IF env.add = "ok"
             THEN Eff(TRUE, "Saved to memory",
                      <<notify_success(OrElse(response.message, "Saved to memory"))>>, <<>>, calls)
             ELSE Eff(FALSE, "Failed to save to memory", <<notify_error("Failed to save")>>, <<>>, calls)

\* memory_store.search_memory: memory_client.search inside try/except, [] when
\* it raises.
search_memory(env) == IF env.search.kind = "raise" THEN <<>> ELSE env.search.value

\* A SEARCH_MEMORY handler that trusts the content of the response when there
\* is one, and queries the memory only otherwise.
_handle_search_memory_trusting(response, memory_enabled, env) ==
    IF ~memory_enabled THEN MemoryDisabled
    ELSE IF Truthy(response.content)
    THEN CopyTextTail(env, response.content, <<>>,
             "Found: " \o Take(response.content, 30) \o "...", "Memory result copied",
             "Failed to copy", "Failed to copy memory result")
    ELSE LET params == response.memory
             q0 == IF params # NoParams THEN params.query ELSE ""
             query == IF Truthy(q0) THEN q0 ELSE OrElse(response.message, "")
             calls == <<Call("memory.search", <<query>>)>>
             results == search_memory(env)
         IN  IF results # <<>>
             THEN CopyTextTail(env, results[1], calls,
                      "Found: " \o Take(results[1], 30) \o "...", "Memory result copied",
                      "Failed to copy", "Failed to copy memory result")
             ELSE Eff(TRUE, "No matching memory found",
                      <<notify_info("Nothing found in memory")>>, <<>>, calls)

_handle_search_memory(response, memory_enabled, env) ==
    IF ~memory_enabled THEN MemoryDisabled
    ELSE LET params == response.memory
             q0 == IF params # NoParams THEN params.query ELSE ""
             query == IF Truthy(q0) THEN q0 ELSE OrElse(response.message, "")
             calls == <<Call("memory.search", <<query>>)>>
             results == search_memory(env)
         IN  IF results # <<>>
             THEN CopyTextTail(env, results[1], calls,
                      "Found: " \o Take(results[1], 30) \o "...", "Memory result copied",
                      "Failed to copy", "Failed to copy memory result")
             ELSE Eff(TRUE, "No matching memory found",
                      <<notify_info("Nothing found in memory")>>, <<>>, calls)

_handle_clipboard_utility(response, clipboard_content, env) ==
    IF ~IsStr(clipboard_content)
    THEN Eff(FALSE, "Clipboard does not contain text", <<notify_error("Need text in clipboard")>>, <<>>, <<>>)
    ELSE LET params == response.clipboard_utility
             operation == IF params # NoParams THEN params.operation ELSE "trim"
             calls == <<Call("apply_utility", <<clipboard_content, operation>>)>>
             result == CollabValue(env, "<transformed>")
         IN  IF env.collab = "raise" THEN EffRaise("collaborator", calls)
             ELSE IF result # None
             THEN CopyTextTail(env, result, calls,
                      OrElse(response.message, "Applied " \o operation), "Applied " \o operation,
                      "Failed to copy", "Failed to copy result")
             ELSE Eff(FALSE, "Failed to apply " \o operation,
                      <<notify_error("Failed to apply " \o operation)>>, <<>>, calls)

\* ChromaMemory.search_with_metadata: collection.query inside try/except, []
\* when the store raises.
search_with_metadata(env) == IF env.swm = "store_error" THEN "empty" ELSE env.swm

\* ChromaMemory.delete: collection.delete inside try/except, False when the
\* store raises.
delete(env) == IF env.delete = "store_error" THEN "false" ELSE env.delete

\* ChromaMemory.clear: client.delete_collection inside try/except, False when
\* the store raises.
clear(env) == IF env.clear = "store_error" THEN "false" ELSE env.clear

\* A DELETE_MEMORY handler that searches before it looks at the query.
_handle_delete_memory_eager(response, memory_enabled, env) ==
    IF ~memory_enabled THEN MemoryDisabled
    ELSE LET params == response.memory
             query == IF params # NoParams THEN params.query ELSE None
             c1 == <<Call("memory.search_with_metadata", <<query>>)>>
         IN  IF ~Truthy(query)
             THEN Eff(FALSE, "No query provided for deletion",
                      <<notify_error("Need query to find item to delete")>>, <<>>, c1)
             ELSE Eff(TRUE, "No matching memory item found to delete",
                      <<notify_info("No matching item found")>>, <<>>, c1)

_handle_delete_memory(response, memory_enabled, env) ==
    IF ~memory_enabled THEN MemoryDisabled
    ELSE LET params == response.memory
             query == IF params # NoParams THEN params.query ELSE None
             c1 == <<Call("memory.search_with_metadata", <<query>>)>>
             c2 == Append(c1, Call("memory.delete", <<"id-1">>))
             results == search_with_metadata(env)
             deleted == delete(env)
         IN  IF ~Truthy(query)
             THEN Eff(FALSE, "No query provided for deletion",
                      <<notify_error("Need query to find item to delete")>>, <<>>, <<>>)
             ELSE CASE results = "raise" -> EffRaise("memory", c1)
                    [] results = "empty" ->
                         Eff(TRUE, "No matching memory item found to delete",
                             <<notify_info("No matching item found")>>, <<>>, c1)
                    \* results[0]['metadata'] is None: .get on None raises
                    [] results = "hit_no_metadata" -> EffRaise("AttributeError", c1)
                    [] OTHER ->
                         CASE deleted = "raise" -> EffRaise("memory", c2)
                           [] deleted = "true" ->
                                Eff(TRUE, "Deleted memory item: wifi",
                                    <<notify_success("Deleted: wifi")>>, <<>>, c2)
                           [] OTHER ->
                                Eff(FALSE, "Failed to delete memory item",
                                    <<notify_error("Failed to delete")>>, <<>>, c2)

_handle_clear_memory(memory_enabled, env) ==
    IF ~memory_enabled THEN MemoryDisabled
    ELSE LET calls == <<Call("memory.clear", <<>>)>>
             cleared == clear(env)
         IN  CASE cleared = "raise" -> EffRaise("memory", calls)
               [] cleared = "true" ->
                    Eff(TRUE, "All memory cleared", <<notify_success("Memory cleared!")>>, <<>>, calls)
               [] OTHER ->
                    Eff(FALSE, "Failed to clear memory",
                        <<notify_error("Failed to clear memory")>>, <<>>, calls)

\* The if/elif chain of execute_action: the handler of the action type.
Dispatch(response, clipboard_content, memory_enabled, env) ==
    LET action_type == response.action_type
    IN  CASE action_type = "COPY_TEXT_TO_CLIPBOARD" -> _handle_copy_text(response, env)
          [] action_type = "SHORT_REPLY" -> _handle_short_reply(response)
          [] action_type = "NO_ACTION" -> _handle_no_action(response)
          [] action_type = "SCREENSHOT_TO_CODE" ->
                _handle_screenshot_to_code(response, clipboard_content, env)
          [] action_type = "STRUCTURE_DATA" ->
                _handle_structure_data(response, clipboard_content, env)
          [] action_type = "DEBUG_CODE" -> _handle_debug_code(response, clipboard_content, env)
          [] action_type = "REWRITE_TEXT" ->
                _handle_rewrite_text(response, clipboard_content, env)
          [] action_type = "REMOVE_BACKGROUND" ->
                _handle_remove_background(response, clipboard_content, env)
          [] action_type = "TRANSLATE" -> _handle_translate(response, clipboard_content, env)
          [] action_type = "SAVE_TO_MEMORY" ->
                _handle_save_to_memory(response, clipboard_content, memory_enabled, env)
          [] action_type = "SEARCH_MEMORY" ->
                _handle_search_memory(response, memory_enabled, env)
          [] action_type = "DELETE_MEMORY" ->
                _handle_delete_memory(response, memory_enabled, env)
          [] action_type = "CLEAR_MEMORY" -> _handle_clear_memory(memory_enabled, env)
          [] action_type = "CLIPBOARD_UTILITY" ->
                _handle_clipboard_utility(response, clipboard_content, env)
          [] OTHER ->
                Eff(FALSE, "Unknown action type: " \o action_type,
                    <<notify_error("Unknown action: " \o action_type)>>, <<>>, <<>>)

\* A boundary without the except clause: what the handler did is what
\* execute_action does.
NoCatchAtBoundary(h, action_type) == h

\* except Exception as e: the handler's exception becomes a failed result.
CatchAtBoundary(h, action_type) ==
    IF h.kind = "raise"
    THEN LET error_msg == "Error executing " \o action_type \o ": " \o h.error
         IN  Eff(FALSE, error_msg, <<notify_error(Take(error_msg, 50))>>, h.clip_writes, h.calls)
    ELSE h

execute_action(response, clipboard_content, memory_enabled, env) ==
    CatchAtBoundary(Dispatch(response, clipboard_content, memory_enabled, env),
                    response.action_type)


\* What the collaborators may do.  collab is the action-specific collaborator
\* (it returns a value, an empty string, None, or raises); copy_ok is what
\* copy_*_to_clipboard returns; the rest are the memory client's methods:
\* "raise" is a client whose method raises, "store_error" a ChromaMemory whose
\* store raises under the method.
DefaultEnv ==
    [ collab |-> "value", copy_ok |-> TRUE, search |-> Ok(<<>>), add |-> "ok",
      swm |-> "empty", delete |-> "true", clear |-> "true" ]

CollabActions ==
    { "SCREENSHOT_TO_CODE", "STRUCTURE_DATA", "DEBUG_CODE", "REWRITE_TEXT",
      "REMOVE_BACKGROUND", "TRANSLATE", "CLIPBOARD_UTILITY" }

\* The collaborator outcomes that the handler of action_type can meet.
ExecEnvs(action_type) ==
    CASE action_type \in CollabActions ->
            { [DefaultEnv EXCEPT !.collab = c, !.copy_ok = k] :
                  c \in {"value", "empty", "none", "raise"}, k \in BOOLEAN }
      [] action_type = "COPY_TEXT_TO_CLIPBOARD" ->
            { [DefaultEnv EXCEPT !.copy_ok = k] : k \in BOOLEAN }
      [] action_type = "SAVE_TO_MEMORY" ->
            { [DefaultEnv EXCEPT !.add = a] : a \in {"ok", "raise"} }
      [] action_type = "SEARCH_MEMORY" ->
            { [DefaultEnv EXCEPT !.search = r, !.copy_ok = k] :
                  r \in {Ok(<<>>), Ok(<<"result A", "result B">>), Ok(<<"llm text">>),
                         Raise("MemoryError")},
                  k \in BOOLEAN }
      [] action_type = "DELETE_MEMORY" ->
            { [DefaultEnv EXCEPT !.swm = s, !.delete = d] :
                  s \in {"empty", "hit", "hit_no_metadata", "raise", "store_error"},
                  d \in {"true", "false", "raise", "store_error"} }
      [] action_type = "CLEAR_MEMORY" ->
            { [DefaultEnv EXCEPT !.clear = c] :
                  c \in {"true", "false", "raise", "store_error"} }
      [] OTHER -> {DefaultEnv}

MemoryActions == {"SAVE_TO_MEMORY", "SEARCH_MEMORY", "DELETE_MEMORY", "CLEAR_MEMORY"}

\* The responses handed to execute_action: every action type the schema
\* names and one it does not, with and without content, message and
\* parameters.
ExecResponses ==
    { [DefaultResponse EXCEPT
          !.action_type = a, !.message = m, !.content = c, !.memory = mp,
          !.data_structuring = ds] :
        a \in ActionTypes \cup {"CALCULATE"},
        m \in {"", "Done"},
        c \in {None, "llm text"},
        mp \in {NoParams, MemoryParams("search", "wifi", None, "note"),
                MemoryParams("search", None, None, "note"),
                MemoryParams("delete", "", None, "note")},
        ds \in {NoParams, [target_format |-> "csv", sql_dialect |-> "postgres"]} }

ExecInit0 ==
    /\ ex_pc = "in"
    /\ ex_response = DefaultResponse
    /\ ex_clip = None
    /\ ex_memory = FALSE
    /\ ex_env = DefaultEnv
    /\ ex_result = None

ExecInputs ==
    /\ ex_response \in
          { r \in ExecResponses :
               /\ r.action_type \notin MemoryActions => r.memory = NoParams
               /\ r.action_type # "STRUCTURE_DATA" => r.data_structuring = NoParams }
    /\ ex_clip \in {ClipContent(t) : t \in ClipboardTypes}
    /\ ex_memory \in
          IF ex_response.action_type \in MemoryActions THEN BOOLEAN ELSE {FALSE}
    /\ ex_env \in ExecEnvs(ex_response.action_type)

\* success, message = execute_action(response, clipboard_content, ...)
Execute ==
    /\ ex_pc = "in"
    /\ ex_result' = execute_action(ex_response, ex_clip, ex_memory, ex_env)
    /\ ex_pc' = "out"
    /\ UNCHANGED <<ex_response, ex_clip, ex_memory, ex_env>>
    /\ UNCHANGED notExec

NextExec == Execute

(***************************************************************************)
(* The system clipboard (clipboard.py).  The pasteboard belongs to the     *)
(* operating system: any application may replace its content at any time,  *)
(* and every replacement raises its change count.                          *)
(***************************************************************************)
\* What the pasteboard may hold: nothing, a text, or an image.
ClipContents == {None, "clip text", "other text", "<Image>"}

\* get_clipboard_content(): ('image', image), ('text', str(text)) or
\* ('empty', None), from what the pasteboard holds now.
get_clipboard_content(pb) ==
    IF pb.content = "<Image>" THEN [kind |-> "image", payload |-> pb.content]
    ELSE IF Truthy(pb.content) THEN [kind |-> "text", payload |-> pb.content]
    ELSE [kind |-> "empty", payload |-> None]

\* get_clipboard_change_count(): pasteboard.changeCount()
get_clipboard_change_count(pb) == pb.count

\* pasteboard.clearContents(); pasteboard.set..._forType_(...)
SetPasteboard(pb, content) == [pb EXCEPT !.count = @ + 1, !.content = content]

\* The locals clipboard_type, clipboard_content before get_clipboard_content
\* has been called.
NoSnapshot == [kind |-> "unread", payload |-> None]

\* ClipboardMonitor.__init__
EmptyContent == [kind |-> "empty", payload |-> None]

\* No call has been made on the monitor yet.
NoCall == [op |-> "none", force_refresh |-> FALSE, at |-> 0]

ClipInit0 ==
    /\ pasteboard = [count |-> 0, content |-> None, external |-> 0]
    /\ snapshot = NoSnapshot
    /\ clip_reads = <<>>
    /\ _last_change_count = 0
    /\ _last_content = EmptyContent
    /\ mon_call = NoCall
    /\ mon_ret = None

\* Another application (or the user) copies something.
ClipboardChange ==
    /\ pasteboard.external < MaxClipChanges
    /\ \E content \in ClipContents \ {pasteboard.content} :
          pasteboard' = [SetPasteboard(pasteboard, content) EXCEPT !.external = @ + 1]
    /\ UNCHANGED <<snapshot, clip_reads, _last_change_count, _last_content, mon_call, mon_ret>>
    /\ UNCHANGED notClip

\* ClipboardMonitor.has_changed(): what it returns and what it leaves in
\* _last_change_count.
has_changed(pb, last_change_count) ==
    LET current_count == get_clipboard_change_count(pb)
    IN  IF current_count # last_change_count
        THEN [ret |-> TRUE, last_change_count |-> current_count]
        ELSE [ret |-> FALSE, last_change_count |-> last_change_count]

\* ClipboardMonitor.get_content(force_refresh): `force_refresh or
\* self.has_changed()` calls has_changed only when force_refresh is false.
get_content(pb, last_change_count, last_content, force_refresh) ==
    LET h == IF force_refresh THEN [ret |-> TRUE, last_change_count |-> last_change_count]
                              ELSE has_changed(pb, last_change_count)
        content == IF h.ret THEN get_clipboard_content(pb) ELSE last_content
    IN  [ret |-> content, last_change_count |-> h.last_change_count,
         last_content |-> content]

\* A call of monitor.has_changed()
MonHasChanged ==
    /\ LET h == has_changed(pasteboard, _last_change_count)
       IN  /\ _last_change_count' = h.last_change_count
           /\ mon_ret' = [changed |-> h.ret]
    /\ mon_call' = [op |-> "has_changed", force_refresh |-> FALSE, at |-> pasteboard.count]
    /\ UNCHANGED <<pasteboard, snapshot, clip_reads, _last_content>>
    /\ UNCHANGED notClip

\* A call of monitor.get_content(force_refresh)
MonGetContent ==
    /\ \E force_refresh \in BOOLEAN :
          LET g == get_content(pasteboard, _last_change_count, _last_content, force_refresh)
          IN  /\ _last_change_count' = g.last_change_count
              /\ _last_content' = g.last_content
              /\ mon_ret' = g.ret
              /\ mon_call' = [op |-> "get_content", force_refresh |-> force_refresh,
                              at |-> pasteboard.count]
    /\ UNCHANGED <<pasteboard, snapshot, clip_reads>>
    /\ UNCHANGED notClip

NextMonitor == ClipboardChange \/ MonHasChanged \/ MonGetContent

(***************************************************************************)
(* The orchestrator (main.py, class Jarvis).  Four kinds of thread run its *)
(* methods: the main thread (run, stop), the key-listener thread, which    *)
(* calls _start_recording on activation and _stop_recording on             *)
(* deactivation, the audio thread (_audio_callback) and one worker thread  *)
(* per _process_audio call.  A step is one read or write of a shared       *)
(* attribute, or one critical section of audio_lock.  The gate calls      *)
(* on_activate = _start_recording and on_deactivate = _stop_recording,     *)
(* alternating (PushToTalk above).  Jarvis.__init__ passes the hotkey as   *)
(* activation_key=, a keyword PushToTalk.__init__ does not have (it is     *)
(* named hotkey); the orchestrator is modelled with the gate constructed   *)
(* on that hotkey.                                                         *)
(***************************************************************************)
\* len() of one block's bytes, as delivered to _audio_callback.
BlockBytes == 1600

\* len(audio_data) < MinAudioBytes: the recording is too short.
MinAudioBytes == 3200

\* len(b''.join(frames))
NumBytes(frames) == Len(frames) * BlockBytes

\* The positions of a worker that is inside the body of _process_audio, past
\* its processing check.
StopPcs ==
    {"stop_flags", "stop_if", "stream_stop", "stream_close", "stream_clear",
     "ptt_if", "fn_stop", "listener_stop", "listener_clear"}

CyclePcs == {"set", "transcribe", "route", "execute", "finally"} \cup StopPcs

InCycle(w) == w.pc \in CyclePcs

NumInCycle == Cardinality({i \in DOMAIN workers : InCycle(workers[i])})

\* The process is alive: run() has not returned (the other threads are
\* daemon threads).
Alive == main_pc \notin {"exited", "crashed"}

\* ---- main thread: run()
\* self.running = True; self.ptt.start(): the Fn detector's thread, or the
\* keyboard listener, is started.
RunStartPtt ==
    /\ main_pc = "init"
    /\ running' = TRUE
    /\ ptt_listening' = TRUE
    /\ listener' = ~use_fn
    /\ main_pc' = "ptt_started"
    /\ UNCHANGED <<recording, audio_frames, audio_lock, audio_stream, processing,
                   listener_pc, audio_data, audio_pc, audio_seq, workers, trigger_in_cycle>>
    /\ UNCHANGED <<stream_state, teardown>>
    /\ UNCHANGED <<gate_lock, accepted>>
    /\ UNCHANGED notApp

\* self.audio_stream = sd.InputStream(...); self.audio_stream.start().  The
\* constructor may raise (no input device), leaving self.audio_stream None,
\* or start() may raise, leaving a stream that was never started: except
\* Exception, then finally.
RunStartStream ==
    /\ main_pc = "ptt_started"
    /\ \E outcome \in {"ok", "no_device", "start_failed"} :
          /\ audio_stream' = (outcome # "no_device")
          /\ stream_state' = CASE outcome = "ok" -> "active"
                               [] outcome = "no_device" -> "none"
                               [] OTHER -> "stopped"
          /\ main_pc' = IF outcome = "ok" THEN "loop" ELSE "stop_flags"
    /\ UNCHANGED <<running, recording, audio_frames, audio_lock, processing,
                   ptt_listening, listener_pc, audio_data, audio_pc, audio_seq,
                   workers, trigger_in_cycle>>
    /\ UNCHANGED <<listener, teardown>>
    /\ UNCHANGED <<gate_lock, accepted>>
    /\ UNCHANGED notApp

\* while self.running: time.sleep(0.1) ends, or a signal ends it
\* (signal_handler calls sys.exit): finally: self.stop()
RunLoopExit ==
    /\ main_pc = "loop"
    /\ \E interrupted \in BOOLEAN : interrupted \/ ~running
    /\ main_pc' = "stop_flags"
    /\ UNCHANGED <<running, recording, audio_frames, audio_lock, audio_stream,
                   processing, ptt_listening, listener_pc, audio_data, audio_pc,
                   audio_seq, workers, trigger_in_cycle>>
    /\ UNCHANGED <<stream_state, listener, teardown>>
    /\ UNCHANGED <<gate_lock, accepted>>
    /\ UNCHANGED notApp

\* ---- Jarvis.stop(), PushToTalk.stop() and FnKeyDetector.stop().  No lock
\* is held; a step is one read or write of an attribute, with the call made
\* on the value read.
\* A call of stop() ends, by returning or by raising.
Ended(raised) ==
    [teardown EXCEPT !.ended = @ + 1, !.raised = @ + (IF raised THEN 1 ELSE 0)]

\* A variant of stop() that stops and closes the stream without looking at
\* self.audio_stream first.
after_stream_check_unguarded(stream) == "stream_stop"

\* if self.audio_stream: ... ; self.ptt.stop()
after_stream_check(stream) == IF stream THEN "stream_stop" ELSE "ptt_if"

\* One step of stop() by a thread at position pc.  nxt is the thread's next
\* position in stop(), or "return", or "raise" (AttributeError: 'NoneType'
\* object has no attribute ...).
stop_step(pc, nxt) ==
    CASE pc = "stop_flags" ->
            \* self.running = False; self.recording = False
            /\ running' = FALSE
            /\ recording' = FALSE
            /\ teardown' = [teardown EXCEPT
                              !.calls = @ + 1,
                              !.overlapped = @ \/ teardown.calls > teardown.ended]
            /\ nxt = "stop_if"
            /\ UNCHANGED <<audio_stream, stream_state, listener, ptt_listening>>
      [] pc = "stop_if" ->
            \* if self.audio_stream:
            /\ nxt = after_stream_check(audio_stream)
            /\ UNCHANGED <<running, recording, audio_stream, stream_state, listener,
                           ptt_listening, teardown>>
      [] pc = "stream_stop" ->
            \* self.audio_stream.stop(), which waits for a callback in progress
            /\ IF ~audio_stream
               THEN /\ nxt = "raise"
                    /\ teardown' = Ended(TRUE)
                    /\ UNCHANGED stream_state
               ELSE /\ stream_state = "active" => audio_pc = "idle"
                    /\ nxt = "stream_close"
                    /\ stream_state' = IF stream_state = "active" THEN "stopped"
                                                                  ELSE stream_state
                    /\ teardown' = [teardown EXCEPT
                                      !.stream_stop = @ + 1,
                                      !.stale = @ + (IF stream_state = "closed" THEN 1 ELSE 0)]
            /\ UNCHANGED <<running, recording, audio_stream, listener, ptt_listening>>
      [] pc = "stream_close" ->
            \* self.audio_stream.close()
            /\ IF ~audio_stream
               THEN /\ nxt = "raise"
                    /\ teardown' = Ended(TRUE)
                    /\ UNCHANGED stream_state
               ELSE /\ nxt = "stream_clear"
                    /\ stream_state' = "closed"
                    /\ teardown' = [teardown EXCEPT
                                      !.stream_close = @ + 1,
                                      !.stale = @ + (IF stream_state = "closed" THEN 1 ELSE 0)]
            /\ UNCHANGED <<running, recording, audio_stream, listener, ptt_listening>>
      [] pc = "stream_clear" ->
            \* self.audio_stream = None
            /\ audio_stream' = FALSE
            /\ nxt = "ptt_if"
            /\ UNCHANGED <<running, recording, stream_state, listener, ptt_listening,
                           teardown>>
      [] pc = "ptt_if" ->
            \* self.ptt.stop(): if self._use_fn and self._fn_detector: ...
            \* elif self.listener: ...
            /\ nxt = IF use_fn THEN "fn_stop"
                     ELSE IF listener THEN "listener_stop" ELSE "return"
            /\ teardown' = IF ~use_fn /\ ~listener THEN Ended(FALSE) ELSE teardown
            /\ UNCHANGED <<running, recording, audio_stream, stream_state, listener,
                           ptt_listening>>
      [] pc = "fn_stop" ->
            \* FnKeyDetector.stop: self._running = False;
            \* if self._thread: self._thread.join(timeout=1).  A later call
            \* writes the same flag and joins a thread that has ended.
            /\ ptt_listening' = FALSE
            /\ nxt = "return"
            /\ teardown' = Ended(FALSE)
            /\ UNCHANGED <<running, recording, audio_stream, stream_state, listener>>
      [] pc = "listener_stop" ->
            \* self.listener.stop()
            /\ IF ~listener
               THEN /\ nxt = "raise"
                    /\ teardown' = Ended(TRUE)
                    /\ UNCHANGED ptt_listening
               ELSE /\ nxt = "listener_clear"
                    /\ ptt_listening' = FALSE
                    /\ teardown' = [teardown EXCEPT
                                      !.listener_stop = @ + 1,
                                      !.stale = @ + (IF ptt_listening THEN 0 ELSE 1)]
            /\ UNCHANGED <<running, recording, audio_stream, stream_state, listener>>
      [] pc = "listener_clear" ->
            \* self.listener = None
            /\ listener' = FALSE
            /\ nxt = "return"
            /\ teardown' = Ended(FALSE)
            /\ UNCHANGED <<running, recording, audio_stream, stream_state, ptt_listening>>

\* finally: self.stop() in run(); an exception of stop() leaves run().
MainStop ==
    /\ main_pc \in StopPcs
    /\ \E nxt \in StopPcs \cup {"return", "raise"} :
          /\ stop_step(main_pc, nxt)
          /\ main_pc' = CASE nxt = "return" -> "exited"
                          [] nxt = "raise" -> "crashed"
                          [] OTHER -> nxt
    /\ UNCHANGED <<audio_frames, audio_lock, processing, listener_pc, audio_data,
                   audio_pc, audio_seq, workers, trigger_in_cycle>>
    /\ UNCHANGED <<gate_lock, accepted>>
    /\ UNCHANGED notApp

\* ---- key-listener thread
\* _on_press: with self._lock: ... self.on_activate().  The gate takes its
\* lock (the Fn detector has none) and fires on_activate: _start_recording
\* is entered, and the lock is released when it returns.
KeyDown ==
    /\ Alive /\ ptt_listening
    /\ listener_pc = "up"
    /\ listener_pc' = "start_check"
    /\ trigger_in_cycle' = (NumInCycle > 0)
    /\ UNCHANGED <<running, recording, audio_frames, audio_lock, audio_stream,
                   processing, ptt_listening, main_pc, audio_data, audio_pc, audio_seq,
                   workers>>
    /\ UNCHANGED <<stream_state, listener, teardown>>
    /\ gate_lock' = IF use_fn THEN None ELSE "listener"
    /\ UNCHANGED accepted
    /\ UNCHANGED notApp

\* _start_recording: if self.processing: return
StartCheck ==
    /\ Alive
    /\ listener_pc = "start_check"
    /\ listener_pc' = IF processing THEN "down" ELSE "start_lock"
    /\ trigger_in_cycle' = (trigger_in_cycle /\ NumInCycle > 0)
    /\ UNCHANGED <<running, recording, audio_frames, audio_lock, audio_stream,
                   processing, ptt_listening, main_pc, audio_data, audio_pc, audio_seq,
                   workers>>
    /\ UNCHANGED <<stream_state, listener, teardown>>
    /\ gate_lock' = IF processing THEN None ELSE gate_lock
    /\ UNCHANGED accepted
    /\ UNCHANGED notApp

\* _start_recording: with self.audio_lock (acquire)
StartLock ==
    /\ Alive
    /\ listener_pc = "start_lock"
    /\ audio_lock = None
    /\ audio_lock' = "listener"
    /\ listener_pc' = "start_body"
    /\ UNCHANGED <<running, recording, audio_frames, audio_stream, processing,
                   ptt_listening, main_pc, audio_data, audio_pc, audio_seq, workers,
                   trigger_in_cycle>>
    /\ UNCHANGED <<stream_state, listener, teardown>>
    /\ UNCHANGED <<gate_lock, accepted>>
    /\ UNCHANGED notApp

\* _start_recording: self.audio_frames = []; self.recording = True (release)
StartBody ==
    /\ Alive
    /\ listener_pc = "start_body"
    /\ audio_frames' = <<>>
    /\ recording' = TRUE
    /\ audio_lock' = None
    /\ listener_pc' = "down"
    /\ UNCHANGED <<running, audio_stream, processing, ptt_listening, main_pc,
                   audio_data, audio_pc, audio_seq, workers, trigger_in_cycle>>
    /\ UNCHANGED <<stream_state, listener, teardown>>
    /\ gate_lock' = None
    /\ accepted' = <<>>
    /\ UNCHANGED notApp

\* _on_release: with self._lock: ... self.on_deactivate().  The gate takes
\* its lock and fires on_deactivate: _stop_recording is entered.
KeyUp ==
    /\ Alive /\ ptt_listening
    /\ listener_pc = "down"
    /\ listener_pc' = "stop_check"
    /\ trigger_in_cycle' = (trigger_in_cycle /\ NumInCycle > 0)
    /\ UNCHANGED <<running, recording, audio_frames, audio_lock, audio_stream,
                   processing, ptt_listening, main_pc, audio_data, audio_pc, audio_seq,
                   workers>>
    /\ UNCHANGED <<stream_state, listener, teardown>>
    /\ gate_lock' = IF use_fn THEN None ELSE "listener"
    /\ UNCHANGED accepted
    /\ UNCHANGED notApp

\* _stop_recording: if not self.recording: return
StopCheck ==
    /\ Alive
    /\ listener_pc = "stop_check"
    /\ listener_pc' = IF recording THEN "stop_lock" ELSE "up"
    /\ trigger_in_cycle' = (trigger_in_cycle /\ NumInCycle > 0)
    /\ UNCHANGED <<running, recording, audio_frames, audio_lock, audio_stream,
                   processing, ptt_listening, main_pc, audio_data, audio_pc, audio_seq,
                   workers>>
    /\ UNCHANGED <<stream_state, listener, teardown>>
    /\ gate_lock' = IF recording THEN gate_lock ELSE None
    /\ UNCHANGED accepted
    /\ UNCHANGED notApp

\* _stop_recording: with self.audio_lock (acquire)
StopLock ==
    /\ Alive
    /\ listener_pc = "stop_lock"
    /\ audio_lock = None
    /\ audio_lock' = "listener"
    /\ listener_pc' = "stop_body"
    /\ UNCHANGED <<running, recording, audio_frames, audio_stream, processing,
                   ptt_listening, main_pc, audio_data, audio_pc, audio_seq, workers,
                   trigger_in_cycle>>
    /\ UNCHANGED <<stream_state, listener, teardown>>
    /\ UNCHANGED <<gate_lock, accepted>>
    /\ UNCHANGED notApp

\* A _stop_recording that goes on to the length check and the thread start
\* without leaving its with self.audio_lock block.
StopBodyKeepingLock ==
    /\ Alive
    /\ listener_pc = "stop_body"
    /\ recording' = FALSE
    /\ audio_data' = audio_frames
    /\ audio_frames' = <<>>
    /\ listener_pc' = "stop_len"
    /\ UNCHANGED <<running, audio_lock, audio_stream, processing, ptt_listening,
                   main_pc, audio_pc, audio_seq, workers, trigger_in_cycle>>
    /\ UNCHANGED <<stream_state, listener, teardown>>
    /\ UNCHANGED <<gate_lock, accepted>>
    /\ UNCHANGED notApp

\* _stop_recording: self.recording = False; audio_data = b''.join(
\* self.audio_frames); self.audio_frames = [] (release)
StopBody ==
    /\ Alive
    /\ listener_pc = "stop_body"
    /\ recording' = FALSE
    /\ audio_data' = audio_frames
    /\ audio_frames' = <<>>
    /\ audio_lock' = None
    /\ listener_pc' = "stop_len"
    /\ UNCHANGED <<running, audio_stream, processing, ptt_listening, main_pc,
                   audio_pc, audio_seq, workers, trigger_in_cycle>>
    /\ UNCHANGED <<stream_state, listener, teardown>>
    /\ UNCHANGED <<gate_lock, accepted>>
    /\ UNCHANGED notApp

\* A thread just started on _process_audio(audio_data).  in_cycle records
\* whether a cycle was running all the while the activation that made the
\* recording was handled: at its key-down, at the check of _start_recording,
\* at its key-up and at the check of _stop_recording.  thread is the thread
\* that runs it.
NewWorker(data, in_cycle) ==
    [pc |-> "check", audio |-> data, in_cycle |-> in_cycle, result |-> "none",
     heard |-> "none", did |-> {}, trace |-> <<>>, notes |-> <<>>,
     thread |-> "worker"]

\* A _stop_recording that calls self._process_audio(audio_data) itself, on
\* the key-listener thread, inside the gate's with self._lock.
StopSpawnInline ==
    /\ Alive
    /\ listener_pc = "stop_len"
    /\ IF NumBytes(audio_data) < MinAudioBytes
       THEN /\ UNCHANGED workers
            /\ listener_pc' = "up"
            /\ gate_lock' = None
       ELSE /\ Len(workers) < MaxWorkers
            /\ workers' = Append(workers, [NewWorker(audio_data, trigger_in_cycle)
                                              EXCEPT !.thread = "listener"])
            /\ listener_pc' = "inline"
            /\ UNCHANGED gate_lock
    /\ audio_data' = <<>>
    /\ UNCHANGED <<running, recording, audio_frames, audio_lock, audio_stream,
                   processing, ptt_listening, main_pc, audio_pc, audio_seq,
                   trigger_in_cycle>>
    /\ UNCHANGED <<stream_state, listener, teardown>>
    /\ UNCHANGED accepted
    /\ UNCHANGED notApp

\* _stop_recording: if len(audio_data) < 3200: return; otherwise
\* threading.Thread(target=self._process_audio, args=(audio_data,)).start()
StopSpawn ==
    /\ Alive
    /\ listener_pc = "stop_len"
    /\ IF NumBytes(audio_data) < MinAudioBytes
       THEN UNCHANGED workers
       ELSE /\ Len(workers) < MaxWorkers
            /\ workers' = Append(workers, NewWorker(audio_data, trigger_in_cycle))
    /\ audio_data' = <<>>
    /\ listener_pc' = "up"
    /\ UNCHANGED <<running, recording, audio_frames, audio_lock, audio_stream,
                   processing, ptt_listening, main_pc, audio_pc, audio_seq,
                   trigger_in_cycle>>
    /\ UNCHANGED <<stream_state, listener, teardown>>
    /\ gate_lock' = None
    /\ UNCHANGED accepted
    /\ UNCHANGED notApp

\* ---- audio thread: _audio_callback
\* A block arrives: if self.recording (read without the lock)
AudioCheck ==
    /\ Alive /\ stream_state = "active"
    /\ audio_pc = "idle"
    /\ audio_seq < MaxAudioBlocks
    /\ audio_seq' = audio_seq + 1
    /\ audio_pc' = IF recording THEN "lock" ELSE "idle"
    /\ UNCHANGED <<running, recording, audio_frames, audio_lock, audio_stream,
                   processing, ptt_listening, main_pc, listener_pc, audio_data,
                   workers, trigger_in_cycle>>
    /\ UNCHANGED <<stream_state, listener, teardown>>
    /\ accepted' = IF recording THEN Append(accepted, audio_seq + 1) ELSE accepted
    /\ UNCHANGED gate_lock
    /\ UNCHANGED notApp

\* _audio_callback: with self.audio_lock (acquire)
AudioLock ==
    /\ Alive
    /\ audio_pc = "lock"
    /\ audio_lock = None
    /\ audio_lock' = "audio"
    /\ audio_pc' = "append"
    /\ UNCHANGED <<running, recording, audio_frames, audio_stream, processing,
                   ptt_listening, main_pc, listener_pc, audio_data, audio_seq,
                   workers, trigger_in_cycle>>
    /\ UNCHANGED <<stream_state, listener, teardown>>
    /\ UNCHANGED <<gate_lock, accepted>>
    /\ UNCHANGED notApp

\* _audio_callback: self.audio_frames.append(audio_int16.tobytes()) (release)
AudioAppend ==
    /\ Alive
    /\ audio_pc = "append"
    /\ audio_frames' = Append(audio_frames, audio_seq)
    /\ audio_lock' = None
    /\ audio_pc' = "idle"
    /\ UNCHANGED <<running, recording, audio_stream, processing, ptt_listening,
                   main_pc, listener_pc, audio_data, audio_seq, workers,
                   trigger_in_cycle>>
    /\ UNCHANGED <<stream_state, listener, teardown>>
    /\ UNCHANGED <<gate_lock, accepted>>
    /\ UNCHANGED notApp

\* ---- worker threads: _process_audio
\* Worker i moves to pc, with result r.
WorkerAt(i, pc, r) == [workers EXCEPT ![i].pc = pc, ![i].result = r]

\* if self.processing: return
check_processing(i) ==
    /\ workers[i].pc = "check"
    /\ workers' = IF processing THEN WorkerAt(i, "done", "dropped")
                                ELSE WorkerAt(i, "set", "none")
    /\ UNCHANGED processing

\* self.processing = True
set_processing(i) ==
    /\ workers[i].pc = "set"
    /\ processing' = TRUE
    /\ workers' = WorkerAt(i, "transcribe", "none")

WorkerCheck ==
    /\ Alive
    /\ \E i \in DOMAIN workers : check_processing(i)
    /\ UNCHANGED <<running, recording, audio_frames, audio_lock, audio_stream,
                   ptt_listening, main_pc, listener_pc, audio_data, audio_pc,
                   audio_seq, trigger_in_cycle>>
    /\ UNCHANGED <<stream_state, listener, teardown>>
    /\ UNCHANGED <<gate_lock, accepted>>
    /\ UNCHANGED notApp

WorkerSet ==
    /\ Alive
    /\ \E i \in DOMAIN workers : set_processing(i)
    /\ UNCHANGED <<running, recording, audio_frames, audio_lock, audio_stream,
                   ptt_listening, main_pc, listener_pc, audio_data, audio_pc,
                   audio_seq, trigger_in_cycle>>
    /\ UNCHANGED <<stream_state, listener, teardown>>
    /\ UNCHANGED <<gate_lock, accepted>>
    /\ UNCHANGED notApp

\* Worker i has called stage (the router or the dispatcher); trace keeps the
\* calls in order.
WorkerDid(ws, i, stage) ==
    [ws EXCEPT ![i].did = @ \cup {stage}, ![i].trace = Append(@, stage)]

\* Worker i has shown a notification.
WorkerNote(ws, i, note) == [ws EXCEPT ![i].notes = Append(@, note)]

\* transcript = transcribe_audio(wav_data): nothing heard (notify_info, return),
\* the stop command (notify_info, self.stop(), return) or a command, which is
\* normalized and the clipboard read.
WorkerTranscribe ==
    /\ Alive
    /\ \E i \in DOMAIN workers :
          /\ workers[i].pc = "transcribe"
          /\ \E heard \in {"blank", "stop", "command"} :
                LET ws == [workers EXCEPT ![i].heard = heard]
                IN  workers' =
                      CASE heard = "blank" ->
                             WorkerNote([ws EXCEPT ![i].pc = "finally", ![i].result = "blank"],
                                        i, notify_info("Didn't catch that"))
                        [] heard = "stop" ->
                             WorkerNote([ws EXCEPT ![i].pc = "stop_flags"],
                                        i, notify_info("Goodbye!"))
                        [] OTHER -> [ws EXCEPT ![i].pc = "route"]
    /\ UNCHANGED <<running, recording, audio_frames, audio_lock, audio_stream,
                   processing, ptt_listening, main_pc, listener_pc, audio_data,
                   audio_pc, audio_seq, trigger_in_cycle>>
    /\ UNCHANGED <<stream_state, listener, teardown>>
    /\ UNCHANGED <<gate_lock, accepted>>
    /\ UNCHANGED notApp

\* Where worker i goes when its self.stop() has moved to nxt: return after
\* stop() has returned; an exception of stop() is caught by except Exception
\* (notify_error("Processing error")).
after_stop(i, nxt) ==
    CASE nxt = "return" -> WorkerAt(i, "finally", "stopped")
      [] nxt = "raise" ->
           WorkerNote(WorkerAt(i, "finally", "error"), i, notify_error("Processing error"))
      [] OTHER -> WorkerAt(i, nxt, "none")

\* self.stop() called by the worker that heard the stop command
WorkerStop ==
    /\ Alive
    /\ \E i \in DOMAIN workers :
          /\ workers[i].pc \in StopPcs
          /\ \E nxt \in StopPcs \cup {"return", "raise"} :
                /\ stop_step(workers[i].pc, nxt)
                /\ workers' = after_stop(i, nxt)
    /\ UNCHANGED <<audio_frames, audio_lock, processing, main_pc, listener_pc,
                   audio_data, audio_pc, audio_seq, trigger_in_cycle>>
    /\ UNCHANGED <<gate_lock, accepted>>
    /\ UNCHANGED notApp

\* response = route_intent(...): it returns a response, or raises (except
\* Exception: notify_error("Processing error")).
WorkerRoute ==
    /\ Alive
    /\ \E i \in DOMAIN workers :
          /\ workers[i].pc = "route"
          /\ \E raised \in BOOLEAN :
                workers' =
                  IF raised
                  THEN WorkerNote(WorkerDid(WorkerAt(i, "finally", "error"), i, "route"),
                                  i, notify_error("Processing error"))
                  ELSE WorkerDid(WorkerAt(i, "execute", "none"), i, "route")
    /\ UNCHANGED <<running, recording, audio_frames, audio_lock, audio_stream,
                   processing, ptt_listening, main_pc, listener_pc, audio_data,
                   audio_pc, audio_seq, trigger_in_cycle>>
    /\ UNCHANGED <<stream_state, listener, teardown>>
    /\ UNCHANGED <<gate_lock, accepted>>
    /\ UNCHANGED notApp

\* success, message = execute_action(...), which returns a result whatever
\* its handler does.
WorkerExecute ==
    /\ Alive
    /\ \E i \in DOMAIN workers :
          /\ workers[i].pc = "execute"
          /\ workers' = WorkerDid(WorkerAt(i, "finally", "dispatched"), i, "execute")
    /\ UNCHANGED <<running, recording, audio_frames, audio_lock, audio_stream,
                   processing, ptt_listening, main_pc, listener_pc, audio_data,
                   audio_pc, audio_seq, trigger_in_cycle>>
    /\ UNCHANGED <<stream_state, listener, teardown>>
    /\ UNCHANGED <<gate_lock, accepted>>
    /\ UNCHANGED notApp

\* finally: self.processing = False
WorkerFinally ==
    /\ Alive
    /\ \E i \in DOMAIN workers :
          /\ workers[i].pc = "finally"
          /\ workers' = WorkerAt(i, "done", workers[i].result)
    /\ processing' = FALSE
    /\ UNCHANGED <<running, recording, audio_frames, audio_lock, audio_stream,
                   ptt_listening, main_pc, listener_pc, audio_data, audio_pc,
                   audio_seq, trigger_in_cycle>>
    /\ UNCHANGED <<stream_state, listener, teardown>>
    /\ UNCHANGED <<gate_lock, accepted>>
    /\ UNCHANGED notApp

Next ==
    \/ RunStartPtt \/ RunStartStream \/ RunLoopExit \/ MainStop
    \/ KeyDown \/ StartCheck \/ StartLock \/ StartBody
    \/ KeyUp \/ StopCheck \/ StopLock \/ StopBody \/ StopSpawn
    \/ AudioCheck \/ AudioLock \/ AudioAppend
    \/ WorkerCheck \/ WorkerSet \/ WorkerTranscribe \/ WorkerStop
    \/ WorkerRoute \/ WorkerExecute \/ WorkerFinally

(***************************************************************************)
(* Specifications                                                          *)
(***************************************************************************)
AppInit0 ==
    /\ running = FALSE
    /\ recording = FALSE
    /\ audio_frames = <<>>
    /\ audio_lock = None
    /\ audio_stream = FALSE
    /\ stream_state = "none"
    /\ listener = FALSE
    /\ teardown = [calls |-> 0, ended |-> 0, raised |-> 0, overlapped |-> FALSE,
                   stream_stop |-> 0, stream_close |-> 0, listener_stop |-> 0,
                   stale |-> 0]
    /\ processing = FALSE
    /\ ptt_listening = FALSE
    /\ main_pc = "init"
    /\ listener_pc = "up"
    /\ audio_data = <<>>
    /\ audio_pc = "idle"
    /\ audio_seq = 0
    /\ workers = <<>>
    /\ trigger_in_cycle = FALSE
    /\ gate_lock = None
    /\ accepted = <<>>

VadInit == VadInit0 /\ NormInit0 /\ StopInit0 /\ GateInit0 /\ RouteInit0 /\ ExecInit0 /\ AppInit0 /\ ClipInit0
SpecVAD == VadInit /\ [][NextVAD]_vars

NormInit ==
    /\ VadInit0 /\ StopInit0 /\ GateInit0 /\ RouteInit0 /\ ExecInit0 /\ AppInit0 /\ ClipInit0
    /\ norm_pc = "in"
    /\ norm_in \in NormInputs
    /\ norm_out = ""
    /\ norm_out2 = ""
SpecNorm == NormInit /\ [][NextNorm]_vars

StopInit ==
    /\ VadInit0 /\ NormInit0 /\ GateInit0 /\ RouteInit0 /\ ExecInit0 /\ AppInit0 /\ ClipInit0
    /\ stop_pc = "in"
    /\ stop_in \in StopInputs
    /\ stop_out = FALSE

SpecStop == StopInit /\ [][NextStop]_vars

GateInit ==
    /\ VadInit0 /\ NormInit0 /\ StopInit0 /\ RouteInit0 /\ ExecInit0 /\ AppInit0 /\ ClipInit0
    /\ use_fn \in BOOLEAN
    /\ held = {}
    /\ pressed_keys = {}
    /\ is_active = FALSE
    /\ fn_is_active = FALSE
    /\ cb_log = <<>>
    /\ key_hist = <<>>
SpecGate == GateInit /\ [][NextGate]_vars

RouteInit ==
    /\ VadInit0 /\ NormInit0 /\ StopInit0 /\ GateInit0 /\ ExecInit0 /\ AppInit0 /\ ClipInit0
    /\ rt_pc = "in"
    /\ rt_command \in RouteCommands
    /\ rt_clip \in ClipboardTypes
    /\ rt_llm \in LLMOutcomes
    /\ rt_result = None
SpecRoute == RouteInit /\ [][NextRoute]_vars

ExecInit ==
    /\ VadInit0 /\ NormInit0 /\ StopInit0 /\ GateInit0 /\ RouteInit0 /\ AppInit0 /\ ClipInit0
    /\ ex_pc = "in"
    /\ ExecInputs
    /\ ex_result = None
SpecExec == ExecInit /\ [][NextExec]_vars

\* A ClipboardMonitor constructed while the pasteboard holds anything:
\* __init__ reads the change count and takes the content for ('empty', None).
MonitorInit ==
    /\ VadInit0 /\ NormInit0 /\ StopInit0 /\ GateInit0 /\ RouteInit0 /\ ExecInit0 /\ AppInit0
    /\ pasteboard \in { [count |-> 0, content |-> c, external |-> 0] : c \in ClipContents }
    /\ snapshot = NoSnapshot
    /\ clip_reads = <<>>
    /\ _last_change_count = get_clipboard_change_count(pasteboard)
    /\ _last_content = EmptyContent
    /\ mon_call = NoCall
    /\ mon_ret = None
SpecMonitor == MonitorInit /\ [][NextMonitor]_vars

Init == VadInit0 /\ NormInit0 /\ StopInit0 /\ GateInit0 /\ RouteInit0 /\ ExecInit0 /\ AppInit0 /\ ClipInit0
Spec == Init /\ [][Next]_vars

\* The threads keep running: the run loop polls self.running every 0.1 s, a
\* thread inside stop(), _process_audio, _start_recording, _stop_recording
\* or _audio_callback takes its next step, and a thread waiting for
\* audio_lock gets it once it is free.  Key presses, audio blocks and
\* signals are not forced to happen.
Fairness ==
    /\ WF_vars(RunStartPtt) /\ WF_vars(RunStartStream)
    /\ WF_vars(RunLoopExit /\ ~running)
    /\ WF_vars(MainStop)
    /\ WF_vars(StartCheck) /\ SF_vars(StartLock) /\ WF_vars(StartBody)
    /\ WF_vars(StopCheck) /\ SF_vars(StopLock) /\ WF_vars(StopBody)
    /\ WF_vars(StopSpawn)
    /\ SF_vars(AudioLock) /\ WF_vars(AudioAppend)
    /\ WF_vars(WorkerCheck) /\ WF_vars(WorkerSet) /\ WF_vars(WorkerTranscribe)
    /\ WF_vars(WorkerStop) /\ WF_vars(WorkerRoute) /\ WF_vars(WorkerExecute)
    /\ WF_vars(WorkerFinally)

FairSpec == Init /\ [][Next]_vars /\ Fairness

\* Shutdown on its own: run() has started the key listener (or the Fn
\* detector) and has started, or failed to start, the audio stream; a worker
\* thread may be about to call stop() for the stop command.  The main thread
\* calls stop() when it leaves run().
StopWorker ==
    [NewWorker(<<>>, FALSE) EXCEPT !.pc = "stop_flags", !.heard = "stop",
                                   !.notes = <<notify_info("Goodbye!")>>]

ShutdownInit ==
    /\ VadInit0 /\ NormInit0 /\ StopInit0 /\ RouteInit0 /\ ExecInit0 /\ ClipInit0
    /\ use_fn \in BOOLEAN
    /\ held = {} /\ pressed_keys = {} /\ is_active = FALSE /\ fn_is_active = FALSE
    /\ cb_log = <<>> /\ key_hist = <<>>
    /\ running = TRUE
    /\ recording \in BOOLEAN
    /\ audio_frames = <<>>
    /\ audio_lock = None
    /\ \E outcome \in {"ok", "no_device", "start_failed"} :
          /\ audio_stream = (outcome # "no_device")
          /\ stream_state = CASE outcome = "ok" -> "active"
                              [] outcome = "no_device" -> "none"
                              [] OTHER -> "stopped"
          /\ main_pc = IF outcome = "ok" THEN "loop" ELSE "stop_flags"
          /\ workers \in IF outcome = "ok" THEN {<<>>, <<StopWorker>>} ELSE {<<>>}
    /\ processing = (workers # <<>>)
    /\ listener = ~use_fn
    /\ ptt_listening = TRUE
    /\ teardown = [calls |-> 0, ended |-> 0, raised |-> 0, overlapped |-> FALSE,
                   stream_stop |-> 0, stream_close |-> 0, listener_stop |-> 0,
                   stale |-> 0]
    /\ listener_pc = "up"
    /\ audio_data = <<>>
    /\ audio_pc = "idle"
    /\ audio_seq = 0
    /\ trigger_in_cycle = FALSE
    /\ gate_lock = None
    /\ accepted = <<>>

NextShutdown ==
    \/ RunLoopExit \/ MainStop \/ WorkerStop \/ WorkerFinally
    \/ AudioCheck \/ AudioLock \/ AudioAppend

SpecShutdown == ShutdownInit /\ [][NextShutdown]_vars

\* The threads once run() is in its loop: the key listener (or the Fn
\* detector) and the audio stream have been started, nothing is recorded yet
\* and no cycle has been started.  The main thread stays in its loop; the
\* thread that calls stop() is the worker that heard the stop command.
LocksInit ==
    /\ VadInit0 /\ NormInit0 /\ StopInit0 /\ RouteInit0 /\ ExecInit0 /\ ClipInit0
    /\ use_fn \in BOOLEAN
    /\ held = {} /\ pressed_keys = {} /\ is_active = FALSE /\ fn_is_active = FALSE
    /\ cb_log = <<>> /\ key_hist = <<>>
    /\ running = TRUE
    /\ recording = FALSE
    /\ audio_frames = <<>>
    /\ audio_lock = None
    /\ audio_stream = TRUE
    /\ stream_state = "active"
    /\ listener = ~use_fn
    /\ teardown = [calls |-> 0, ended |-> 0, raised |-> 0, overlapped |-> FALSE,
                   stream_stop |-> 0, stream_close |-> 0, listener_stop |-> 0,
                   stale |-> 0]
    /\ processing = FALSE
    /\ ptt_listening = TRUE
    /\ main_pc = "loop"
    /\ listener_pc = "up"
    /\ audio_data = <<>>
    /\ audio_pc = "idle"
    /\ audio_seq = 0
    /\ workers = <<>>
    /\ trigger_in_cycle = FALSE
    /\ gate_lock = None
    /\ accepted = <<>>

NextLocks ==
    \/ KeyDown \/ StartCheck \/ StartLock \/ StartBody
    \/ KeyUp \/ StopCheck \/ StopLock \/ StopBody \/ StopSpawn
    \/ AudioCheck \/ AudioLock \/ AudioAppend
    \/ WorkerCheck \/ WorkerSet \/ WorkerTranscribe \/ WorkerStop
    \/ WorkerRoute \/ WorkerExecute \/ WorkerFinally

SpecLocks == LocksInit /\ [][NextLocks]_vars

\* One command cycle on its own, with the real stages: run() is in its loop
\* with the stream and the key listener started, one worker thread has been
\* started on _process_audio, and no key is pressed while it runs.  The
\* worker is workers[1]; the transcript is stop_in, the clipboard is the
\* pasteboard, the LLM's behaviour rt_llm, the other collaborators' ex_env.
\* What transcribe_audio returns: None (nothing heard, or the transcription
\* failed), or text.
CycleTranscripts ==
    { None, "  ", "stop", " Goodbye ", "stop the music", "hello",
      "please fix this code", "what's my wifi password", "remove background",
      "delete my wifi password", "convert to csv",
      "remember this as my extremely long and detailed home wifi password" }

\* What llm_client.chat does in a cycle: it raises (the call fails, times out,
\* or the output does not fit the schema), or returns a response.
CycleLLM ==
    { Raise(e) : e \in {"LLMError", "Timeout", "ValidationError"} }
    \cup { Ok(r) : r \in { x \in LLMResponses :
                              x.action_type \in {"SHORT_REPLY", "REWRITE_TEXT",
                                                  "REMOVE_BACKGROUND", "SEARCH_MEMORY",
                                                  "COPY_TEXT_TO_CLIPBOARD"} } }

CycleEnvs ==
    { DefaultEnv, [DefaultEnv EXCEPT !.collab = "raise"],
      [DefaultEnv EXCEPT !.copy_ok = FALSE],
      [DefaultEnv EXCEPT !.search = Raise("MemoryError")],
      [DefaultEnv EXCEPT !.search = Ok(<<"result A", "result B">>)] }

CycleInit ==
    /\ VadInit0 /\ NormInit0
    /\ stop_pc = "in" /\ stop_in \in CycleTranscripts /\ stop_out = FALSE
    /\ use_fn \in BOOLEAN
    /\ held = {} /\ pressed_keys = {} /\ is_active = FALSE /\ fn_is_active = FALSE
    /\ cb_log = <<>> /\ key_hist = <<>>
    /\ rt_pc = "in" /\ rt_command = "" /\ rt_clip = "empty"
    /\ rt_llm \in CycleLLM /\ rt_result = None
    /\ pasteboard \in { [count |-> 0, content |-> ClipContent(t), external |-> 0] :
                           t \in ClipboardTypes }
    /\ snapshot = NoSnapshot
    /\ clip_reads = <<>>
    /\ _last_change_count = 0
    /\ _last_content = EmptyContent
    /\ mon_call = NoCall
    /\ mon_ret = None
    /\ ex_pc = "in" /\ ex_response = DefaultResponse /\ ex_clip = None
    /\ ex_memory \in BOOLEAN /\ ex_env \in CycleEnvs /\ ex_result = None
    /\ running = TRUE
    /\ recording = FALSE
    /\ audio_frames = <<>>
    /\ audio_lock = None
    /\ audio_stream = TRUE
    /\ stream_state = "active"
    /\ listener = ~use_fn
    /\ teardown = [calls |-> 0, ended |-> 0, raised |-> 0, overlapped |-> FALSE,
                   stream_stop |-> 0, stream_close |-> 0, listener_stop |-> 0,
                   stale |-> 0]
    /\ processing \in BOOLEAN
    /\ ptt_listening = TRUE
    /\ main_pc = "loop"
    /\ listener_pc = "up"
    /\ audio_data = <<>>
    /\ audio_pc = "idle"
    /\ audio_seq = 2
    /\ workers = <<NewWorker(<<1, 2>>, FALSE)>>
    /\ trigger_in_cycle = FALSE
    /\ gate_lock = None
    /\ accepted = <<>>

\* What a cycle step leaves alone in the orchestrator.
CycleFrame ==
    /\ UNCHANGED <<running, recording, audio_frames, audio_lock, audio_stream,
                   processing, ptt_listening, main_pc, listener_pc, audio_data,
                   audio_pc, audio_seq, trigger_in_cycle>>
    /\ UNCHANGED <<stream_state, listener, teardown, gate_lock, accepted>>
    /\ UNCHANGED <<vadVars, gateVars>>
    /\ UNCHANGED <<_last_change_count, _last_content, mon_call, mon_ret>>

\* not transcript or not transcript.strip()
BlankTranscript(transcript) == transcript = None \/ Strip(transcript) = ""

\* transcript = transcribe_audio(wav_data) ... clipboard_type,
\* clipboard_content = get_clipboard_content(): nothing heard (notify_info,
\* return), the stop command (notify_info, self.stop(), return), or a command,
\* which is normalized.
CycleTranscribe ==
    /\ Alive
    /\ workers[1].pc = "transcribe"
    /\ LET transcript == stop_in
           command == Strip(transcript)
       IN  IF BlankTranscript(transcript)
           THEN /\ workers' = WorkerNote([workers EXCEPT ![1].pc = "finally",
                                                         ![1].result = "blank",
                                                         ![1].heard = "blank"],
                                         1, notify_info("Didn't catch that"))
                /\ UNCHANGED <<stop_pc, stop_out, normVars, rt_command>>
                /\ UNCHANGED <<snapshot, clip_reads>>
           ELSE /\ stop_pc' = "out"
                /\ stop_out' = is_stop_command(command)
                /\ IF is_stop_command(command)
                   THEN /\ workers' = WorkerNote([workers EXCEPT ![1].pc = "stop_flags",
                                                                 ![1].heard = "stop"],
                                                 1, notify_info("Goodbye!"))
                        /\ UNCHANGED <<normVars, rt_command>>
                        /\ UNCHANGED <<snapshot, clip_reads>>
                   ELSE /\ workers' = [workers EXCEPT ![1].pc = "route",
                                                      ![1].heard = "command"]
                        /\ norm_pc' = "out"
                        /\ norm_in' = command
                        /\ norm_out' = normalize_command(command)
                        /\ rt_command' = normalize_command(command)
                        /\ UNCHANGED norm_out2
                        /\ snapshot' = get_clipboard_content(pasteboard)
                        /\ clip_reads' = Append(clip_reads, get_clipboard_content(pasteboard))
    /\ UNCHANGED <<stop_in, rt_pc, rt_clip, rt_llm, rt_result, execVars, pasteboard>>
    /\ CycleFrame

\* A cycle that calls the router a second time when the first call fails.
CycleRouteRetrying ==
    /\ Alive
    /\ workers[1].pc = "route"
    /\ rt_clip' = snapshot.kind
    /\ LET r == route_intent(rt_command, snapshot.kind, rt_llm)
       IN  /\ rt_result' = r
           /\ rt_pc' = "routed"
           /\ IF r.out.kind = "raise"
              THEN /\ workers' =
                        IF "route" \in workers[1].did
                        THEN WorkerNote(WorkerDid(WorkerAt(1, "finally", "error"), 1, "route"),
                                        1, notify_error("Processing error"))
                        ELSE WorkerDid(workers, 1, "route")
                   /\ UNCHANGED ex_response
              ELSE /\ workers' = WorkerDid(WorkerAt(1, "execute", "none"), 1, "route")
                   /\ ex_response' = r.out.value
    /\ UNCHANGED <<rt_command, rt_llm, ex_pc, ex_clip, ex_memory, ex_env, ex_result>>
    /\ UNCHANGED <<normVars, stopVars>>
    /\ UNCHANGED <<pasteboard, snapshot, clip_reads>>
    /\ CycleFrame

\* response = route_intent(command=command, clipboard_type=clipboard_type,
\* ...); except Exception: notify_error("Processing error")
CycleRoute ==
    /\ Alive
    /\ workers[1].pc = "route"
    /\ rt_clip' = snapshot.kind
    /\ LET r == route_intent(rt_command, snapshot.kind, rt_llm)
       IN  /\ rt_result' = r
           /\ rt_pc' = "routed"
           /\ IF r.out.kind = "raise"
              THEN /\ workers' = WorkerNote(WorkerDid(WorkerAt(1, "finally", "error"),
                                                     1, "route"),
                                           1, notify_error("Processing error"))
                   /\ UNCHANGED ex_response
              ELSE /\ workers' = WorkerDid(WorkerAt(1, "execute", "none"), 1, "route")
                   /\ ex_response' = r.out.value
    /\ UNCHANGED <<rt_command, rt_llm, ex_pc, ex_clip, ex_memory, ex_env, ex_result>>
    /\ UNCHANGED <<normVars, stopVars>>
    /\ UNCHANGED <<pasteboard, snapshot, clip_reads>>
    /\ CycleFrame

\* The pasteboard after the clipboard writes of a dispatch.
RECURSIVE AfterWrites(_, _)
AfterWrites(pb, writes) ==
    IF writes = <<>> THEN pb
    ELSE AfterWrites(SetPasteboard(pb, Head(writes).data), Tail(writes))

\* A dispatch that is given the clipboard as it is at the time of the call.
CycleExecuteRereading ==
    /\ Alive
    /\ workers[1].pc = "execute"
    /\ ex_clip' = get_clipboard_content(pasteboard).payload
    /\ LET e == execute_action(ex_response, get_clipboard_content(pasteboard).payload,
                               ex_memory, ex_env)
       IN  /\ ex_result' = e
           /\ ex_pc' = "out"
           /\ pasteboard' = AfterWrites(pasteboard, e.clip_writes)
           /\ workers' =
                 [WorkerDid(WorkerAt(1, "finally", "dispatched"), 1, "execute")
                    EXCEPT ![1].notes = @ \o e.notifications]
    /\ UNCHANGED <<ex_response, ex_memory, ex_env>>
    /\ UNCHANGED <<normVars, stopVars, routeVars>>
    /\ UNCHANGED <<snapshot, clip_reads>>
    /\ CycleFrame

\* success, message = execute_action(response=response,
\* clipboard_content=clipboard_content, ...); if not success: print(...).
\* The handler's clipboard writes reach the pasteboard.
CycleExecute ==
    /\ Alive
    /\ workers[1].pc = "execute"
    /\ ex_clip' = snapshot.payload
    /\ LET e == execute_action(ex_response, snapshot.payload, ex_memory, ex_env)
       IN  /\ ex_result' = e
           /\ ex_pc' = "out"
           /\ pasteboard' = AfterWrites(pasteboard, e.clip_writes)
           /\ workers' =
                 [WorkerDid(WorkerAt(1, "finally", "dispatched"), 1, "execute")
                    EXCEPT ![1].notes = @ \o e.notifications]
    /\ UNCHANGED <<ex_response, ex_memory, ex_env>>
    /\ UNCHANGED <<normVars, stopVars, routeVars>>
    /\ UNCHANGED <<snapshot, clip_reads>>
    /\ CycleFrame

NextCycle ==
    \/ WorkerCheck \/ WorkerSet \/ CycleTranscribe \/ WorkerStop
    \/ CycleRoute \/ CycleExecute \/ WorkerFinally

SpecCycle == CycleInit /\ [][NextCycle]_vars

\* A command cycle while other applications change the clipboard.
SnapshotInit ==
    /\ CycleInit
    /\ stop_in \in {"  ", "stop", "hello", "remove background", "please fix this code"}
    /\ rt_llm \in { Raise("LLMError") } \cup
                   { Ok(r) : r \in { x \in LLMResponses :
                                       /\ x.action_type \in {"REWRITE_TEXT", "REMOVE_BACKGROUND"}
                                       /\ x.content = None } }
    /\ ex_env = DefaultEnv
    /\ ~ex_memory
    /\ ~processing
    /\ use_fn

NextSnapshot == NextCycle \/ ClipboardChange

SpecSnapshot == SnapshotInit /\ [][NextSnapshot]_vars

(***************************************************************************)
(* Properties                                                              *)
(***************************************************************************)
\* C1 (checked under Spec): at most one command cycle -- the body of
\* _process_audio past its processing check -- is executing at any time.
C1_AtMostOneCycle == NumInCycle <= 1

\* C2 (checked under Spec): an activation whose key-down and key-up both
\* arrived while a command cycle was running is dropped: the thread started
\* for it, if any, never runs a cycle and never dispatches a command.
C2_TriggerInCycleDropped ==
    \A i \in DOMAIN workers :
        workers[i].in_cycle =>
            /\ ~InCycle(workers[i])
            /\ workers[i].result \in {"none", "dropped"}

\* C3 (checked under SpecRoute): whatever the command, the clipboard type and
\* the LLM's answer, the response route_intent returns never names an
\* image-requiring action when the clipboard is not an image, nor a
\* text-requiring action when the clipboard is not text.
C3_RoutedActionFitsClipboard ==
    (rt_pc = "routed" /\ rt_result.out.kind = "ok") =>
        LET action_type == rt_result.out.value.action_type
        IN  /\ action_type \in {"SCREENSHOT_TO_CODE", "REMOVE_BACKGROUND"}
                  => rt_clip = "image"
            /\ action_type \in {"STRUCTURE_DATA", "DEBUG_CODE", "REWRITE_TEXT",
                                "TRANSLATE", "CLIPBOARD_UTILITY"}
                  => rt_clip = "text"

\* C4 (checked under SpecExec): execute_action always returns a (success,
\* message) result and never lets an exception through; when the handler
\* raised, and when the action type is unknown, success is false and an error
\* notification was shown.
C4_AlwaysDispatchResult ==
    ex_pc = "out" =>
        /\ ex_result.kind = "return"
        /\ ex_result.success \in BOOLEAN
        /\ ( \/ Dispatch(ex_response, ex_clip, ex_memory, ex_env).kind = "raise"
             \/ ex_response.action_type \notin ActionTypes )
              => /\ ~ex_result.success
                 /\ \E i \in 1..Len(ex_result.notifications) :
                       ex_result.notifications[i][1] = "error"

\* A handler raised and execute_action returned a failed result.
C4_HandlerRaised ==
    /\ ex_pc = "out"
    /\ Dispatch(ex_response, ex_clip, ex_memory, ex_env).kind = "raise"
    /\ ex_result.kind = "return"
    /\ ~ex_result.success

\* C5 (checked under SpecExec): SEARCH_MEMORY with memory enabled always
\* queries the memory client, and the only text it ever writes to the
\* clipboard is the first result of that query, verbatim, whatever the
\* content of the response is; with no result nothing is written.
C5_SearchMemoryWritesFirstResult ==
    (ex_pc = "out" /\ ex_response.action_type = "SEARCH_MEMORY" /\ ex_memory) =>
        LET found == ex_env.search.kind = "ok" /\ ex_env.search.value # <<>>
        IN  /\ \E i \in 1..Len(ex_result.calls) :
                  ex_result.calls[i].fn = "memory.search"
            /\ ex_result.clip_writes =
                  IF found /\ ex_env.copy_ok
                  THEN <<[kind |-> "text", data |-> ex_env.search.value[1]]>>
                  ELSE <<>>

\* SEARCH_MEMORY ran on a response that carries a content while the memory
\* returned two results, and the first result was written.
C5_ContentIgnored ==
    /\ ex_pc = "out"
    /\ ex_response.action_type = "SEARCH_MEMORY"
    /\ ex_memory
    /\ ex_response.content = "llm text"
    /\ ex_env.search = Ok(<<"result A", "result B">>)
    /\ ex_result.clip_writes = <<[kind |-> "text", data |-> "result A"]>>

\* The gate is Armed.
Armed == IF use_fn THEN fn_is_active ELSE is_active

\* C6 (checked under SpecGate): the callbacks the gate has fired alternate,
\* starting with on_activate, and the gate is Armed exactly when the last one
\* fired was on_activate; so a key-down that arrives while Armed fires nothing.
C6_CallbacksAlternate ==
    /\ \A i \in 1..Len(cb_log) :
          cb_log[i] = IF i % 2 = 1 THEN "activate" ELSE "deactivate"
    /\ Armed <=> (Len(cb_log) % 2 = 1)

\* The hotkey's trigger key was pressed twice in a row while the gate was
\* Armed, and a single activation has fired.
C6_RepeatWhileArmed ==
    /\ ~use_fn
    /\ is_active
    /\ cb_log = <<"activate">>
    /\ Len(key_hist) >= 4
    /\ key_hist[Len(key_hist)] = <<"press", "kj">>
    /\ key_hist[Len(key_hist) - 1] = <<"press", "kj">>

\* cmd, shift and j were pressed, in this order, before anything else.
HotkeyPressed ==
    /\ ~use_fn
    /\ Len(key_hist) >= 3
    /\ SubSeq(key_hist, 1, 3) =
          << <<"press", "cmd_l">>, <<"press", "shift_l">>, <<"press", "kj">> >>

\* Since then only j was pressed or released: cmd and shift have stayed held.
OnlyTriggerSince == \A i \in 4..Len(key_hist) : key_hist[i][2] = "kj"

NumActivations == Cardinality({i \in 1..Len(cb_log) : cb_log[i] = "activate"})

\* Pressing cmd, shift, j fires one activation; releasing one of the three
\* next fires one deactivation.
FiresOnceAndReleases ==
    /\ Len(key_hist) = 3 => cb_log = <<"activate">>
    /\ ( /\ Len(key_hist) = 4
         /\ key_hist[4][1] = "release"
         /\ key_hist[4][2] \in {"cmd_l", "shift_l", "kj"} )
          => cb_log = <<"activate", "deactivate">>

\* C7 as stated (checked under SpecGate): with cmd+shift+j pressed in this
\* order one activation fires, releasing any of the three fires one
\* deactivation, and while cmd and shift stay held no further key-down of j
\* -- a repeat, or a press after j was released -- fires another activation.
C7_NeverReactivates ==
    HotkeyPressed =>
        /\ FiresOnceAndReleases
        /\ OnlyTriggerSince => NumActivations = 1

\* C7 amended (checked under SpecGate): as above, except that while cmd and
\* shift stay held a key-down of j fires an activation exactly when j was up:
\* a repeated key-down fires nothing, a press after a release of j fires one.
C7_ReactivatesAfterRelease ==
    HotkeyPressed =>
        /\ FiresOnceAndReleases
        /\ OnlyTriggerSince =>
              NumActivations =
                 Cardinality({ i \in 3..Len(key_hist) :
                                  /\ key_hist[i] = <<"press", "kj">>
                                  /\ i > 3 => key_hist[i - 1] = <<"release", "kj">> })

\* j was released and pressed again with cmd and shift held, and a second
\* activation fired.
C7_SecondActivation ==
    /\ HotkeyPressed
    /\ Len(key_hist) = 5
    /\ key_hist[4] = <<"release", "kj">>
    /\ key_hist[5] = <<"press", "kj">>
    /\ cb_log = <<"activate", "deactivate", "activate">>

\* C8 (checked under SpecVAD): a call of process_frame returns a segment if
\* and only if that call takes the segmenter from triggered to not triggered.
C8_SegmentIffUntriggered ==
    [][ vad_fed' # vad_fed =>
           ((vad_ret' # NoSegment) <=> (triggered /\ ~triggered')) ]_vars

\* process_frame has just returned a segment.
C8_SegmentReturned ==
    /\ vad_ret # NoSegment
    /\ ~triggered
    /\ Len(vad_fed) > 0

\* Every frame fed so far was classified unvoiced.
AllUnvoiced == \A i \in 1..Len(vad_fed) : ~vad_fed[i].speech

\* C9 (checked under SpecVAD): while every frame fed was unvoiced, the
\* segmenter is not triggered and has returned no segment.
C9_SilenceNeverTriggers ==
    AllUnvoiced => (~triggered /\ vad_ret = NoSegment)

\* More unvoiced frames than the ring buffer holds were fed, and nothing else.
C9_LongSilence ==
    /\ AllUnvoiced
    /\ Len(vad_fed) > num_padding_frames
    /\ ~triggered

\* s begins with one of the filler phrases, case-insensitively.
BeginsWithFiller(s) ==
    \E i \in 1..Len(fillers) : StartsWith(LowerStr(s), fillers[i])

\* C10 (checked under SpecNorm): the result of normalize_command does not
\* begin with a filler phrase, has its whitespace runs collapsed and its ends
\* trimmed, and normalizing it again changes nothing.
C10_NormalizedAndIdempotent ==
    /\ norm_pc \in {"out", "again"} =>
          /\ ~BeginsWithFiller(norm_out)
          /\ norm_out = JoinSpace(Split(norm_out))
    /\ norm_pc = "again" => norm_out2 = norm_out

(***************************************************************************)
(* C11: is_stop_command returns true exactly when the command, trimmed and *)
(* lowercased, is one of the fixed stop phrases; a command that only       *)
(* contains a stop phrase (as a substring or among other words) is not a   *)
(* stop command.                                                           *)
(***************************************************************************)
StopPhraseSet ==
    { "stop", "exit", "quit", "goodbye", "bye", "shut down", "shutdown",
      "go away", "nevermind", "never mind", "cancel" }

\* s is p in any letter case, with whitespace (and nothing else) around it.
IsPaddedPhrase(s, p) ==
    \E i \in 0..(Len(s) - Len(p)) :
        /\ LowerStr(SubSeq(s, i + 1, i + Len(p))) = p
        /\ \A k \in (1..i) \cup ((i + Len(p) + 1)..Len(s)) : IsSpace(CharAt(s, k))

C11_StopIffExactPhrase ==
    stop_pc = "out" =>
        (stop_out <=> \E p \in StopPhraseSet : IsPaddedPhrase(stop_in, p))

\* is_stop_command has rejected a command that contains the word "stop".
C11_ContainsStopRejected ==
    /\ stop_pc = "out"
    /\ ~stop_out
    /\ Contains(LowerStr(stop_in), "stop")

(***************************************************************************)
(* C12: a cycle whose transcript is a stop phrase never calls the router   *)
(* or the dispatcher (so never writes the clipboard), and it tears the     *)
(* orchestrator down: eventually the audio stream is stopped and closed,   *)
(* the key listener is stopped, running is false and the run loop has      *)
(* exited.                                                                 *)
(***************************************************************************)
HeardStop == \E i \in DOMAIN workers : workers[i].heard = "stop"

TornDown ==
    /\ stream_state = "closed"
    /\ ~ptt_listening
    /\ ~running
    /\ ~Alive

C12_StopPhraseTearsDown ==
    /\ [](\A i \in DOMAIN workers : workers[i].heard = "stop" => workers[i].did = {})
    /\ (HeardStop ~> TornDown)

(***************************************************************************)
(* C14: when stop() is called from within a cycle on a worker thread while *)
(* run()'s exit path calls it too, then under every interleaving the       *)
(* stream is stopped and closed exactly once, no call raises on a stream   *)
(* (or listener) reference that was already cleared, and once the calls    *)
(* have ended the stream and the key listener are released.                *)
(***************************************************************************)
Released ==
    /\ ~audio_stream /\ stream_state \in {"none", "closed"}
    /\ ~listener /\ ~ptt_listening

C14_ConcurrentStopReleasesOnce ==
    /\ teardown.stream_stop <= 1
    /\ teardown.stream_close <= 1
    /\ teardown.raised = 0
    /\ (teardown.calls > 0 /\ teardown.ended = teardown.calls) => Released

Validated == rt_pc = "routed" /\ rt_result.llm_calls = 1 /\ rt_result.out.kind = "ok"

C15_ValidationRewritesMismatch ==
    Validated =>
        LET given == rt_llm.value
            got == rt_result.out.value
        IN  IF /\ given.action_type \in {"SCREENSHOT_TO_CODE", "REMOVE_BACKGROUND"}
               /\ rt_clip # "image"
            THEN /\ got.action_type = "SHORT_REPLY"
                 /\ got.message = "Copy an image first"
            ELSE IF /\ given.action_type \in {"STRUCTURE_DATA", "DEBUG_CODE", "REWRITE_TEXT",
                                              "TRANSLATE", "CLIPBOARD_UTILITY"}
                    /\ rt_clip # "text"
            THEN /\ got.action_type = "SHORT_REPLY"
                 /\ got.message = "Copy some text first"
            ELSE got = given

\* SCREENSHOT_TO_CODE with a text clipboard has been rewritten.
C15_ImageActionOnText ==
    /\ Validated
    /\ rt_llm.value.action_type = "SCREENSHOT_TO_CODE"
    /\ rt_clip = "text"
    /\ rt_result.out.value.action_type = "SHORT_REPLY"

(***************************************************************************)
(* C16: the fast path tries the save rule before the search rule: a        *)
(* command with a save phrase and a search phrase, and no phrase of a rule *)
(* tried earlier, is SAVE_TO_MEMORY; "remember this as my wifi password"   *)
(* is SAVE_TO_MEMORY with a label containing "wifi password", and "what's  *)
(* my wifi password" is SEARCH_MEMORY.                                     *)
(***************************************************************************)
HasPhrase(command, phrases) == \E p \in phrases : Contains(LowerStr(command), p)

SavePhrases ==
    {"remember this", "save this", "store this", "keep this", "save to memory"}

SearchPhrases ==
    {"what's my", "what is my", "whats my", "where did i save", "find my",
     "search memory", "recall", "get my", "show my", "retrieve my", "look up my"}

\* The phrases of the rules tried before the save rule.
EarlierPhrases ==
    {"remove background", "remove the background", "transparent", "code this",
     "make this react", "convert to react", "tailwind this", "make this html",
     "clear all memory", "clear memory", "delete all memory", "erase memory",
     "wipe memory", "delete the", "forget my", "remove from memory", "delete my"}

SaveAndSearch ==
    /\ HasPhrase(rt_command, SavePhrases)
    /\ HasPhrase(rt_command, SearchPhrases)
    /\ ~HasPhrase(rt_command, EarlierPhrases)

\* route_intent answered on the fast path with this action type.
FastPath(action_type) ==
    /\ rt_result.llm_calls = 0
    /\ rt_result.out.kind = "ok"
    /\ rt_result.out.value.action_type = action_type

C16_SaveBeforeSearch ==
    rt_pc = "routed" =>
        /\ SaveAndSearch => FastPath("SAVE_TO_MEMORY")
        /\ rt_command = "remember this as my wifi password" =>
              /\ FastPath("SAVE_TO_MEMORY")
              /\ Contains(rt_result.out.value.memory.label, "wifi password")
        /\ rt_command = "what's my wifi password" => FastPath("SEARCH_MEMORY")

\* A command with the search phrase first and the save phrase after it.
C16_SearchPhraseFirst ==
    /\ rt_pc = "routed"
    /\ rt_command = "What's my name? Remember this"
    /\ FastPath("SAVE_TO_MEMORY")

\* Whether a call made by a handler met a failing collaborator: a memory
\* client method that raised or whose store raised, or an action-specific
\* collaborator (vision, LLM, background removal) that raised or returned None.
CallFailed(call, env) ==
    CASE call.fn = "memory.add" -> env.add = "raise"
      [] call.fn = "memory.search" -> env.search.kind = "raise"
      [] call.fn = "memory.search_with_metadata" -> env.swm \in {"raise", "store_error"}
      [] call.fn = "memory.delete" -> env.delete \in {"raise", "store_error", "false"}
      [] call.fn = "memory.clear" -> env.clear \in {"raise", "store_error", "false"}
      [] call.fn \in {"copy_text_to_clipboard", "copy_image_to_clipboard"} -> FALSE
      [] OTHER -> env.collab \in {"raise", "none"}

DispatchMetFailure ==
    \E i \in 1..Len(ex_result.calls) : CallFailed(ex_result.calls[i], ex_env)

\* C18: whenever a collaborator call made while dispatching an action fails
\* (vision, LLM, background removal, or a memory add, search, delete or clear
\* raising or failing), execute_action returns success = False.
C18_CollaboratorFailureFailsDispatch ==
    (ex_pc = "out" /\ DispatchMetFailure) => ~ex_result.success

\* The query of a DELETE_MEMORY response: response.memory.query if
\* response.memory else None.
DeleteQuery == IF ex_response.memory # NoParams THEN ex_response.memory.query ELSE None

\* C19: dispatching DELETE_MEMORY with a missing or empty query returns
\* success = False without any call into the memory client (no search, no
\* delete) and without a clipboard write.
C19_DeleteWithoutQueryTouchesNothing ==
    (ex_pc = "out" /\ ex_response.action_type = "DELETE_MEMORY" /\ ~Truthy(DeleteQuery))
        => /\ ~ex_result.success
           /\ ex_result.calls = <<>>
           /\ ex_result.clip_writes = <<>>

\* A DELETE_MEMORY response with an empty query was dispatched with the
\* memory enabled and a store that holds a matching item.
C19_EmptyQueryRefused ==
    /\ ex_pc = "out"
    /\ ex_response.action_type = "DELETE_MEMORY"
    /\ ex_memory
    /\ ex_response.memory # NoParams
    /\ DeleteQuery = ""
    /\ ex_env.swm = "hit"
    /\ ex_result.message = "No query provided for deletion"

\* The cycle called the LLM and the call failed.
LLMFailed == rt_pc = "routed" /\ rt_result.llm_calls > 0 /\ rt_llm.kind = "raise"

\* C17: when the LLM call fails during routing (it raises, times out, or its
\* output does not fit the schema), route_intent has made one LLM call and no
\* second one and raises that failure; in that cycle the dispatcher is never
\* invoked, the clipboard is not written, and the only notification is one
\* notify_error("Processing error").
C17_RoutingFailureEndsCycle ==
    LLMFailed =>
        /\ rt_result.llm_calls = 1
        /\ rt_result.out = rt_llm
        /\ "execute" \notin workers[1].did
        /\ ex_pc = "in" /\ ex_result = None
        /\ workers[1].notes = <<notify_error("Processing error")>>
        /\ workers[1].pc \in {"finally", "done"}
        /\ workers[1].result = "error"

\* A cycle whose LLM call timed out has ended.
C17_TimedOutCycleEnded ==
    /\ LLMFailed
    /\ rt_llm = Raise("Timeout")
    /\ rt_command = "fix this code"
    /\ workers[1].pc = "done"
    /\ ~processing

\* A command cycle has ended: a worker that entered the body of
\* _process_audio has left it.
CycleOver == \E i \in DOMAIN workers : workers[i].pc = "done" /\ workers[i].result # "dropped"

\* C20 (checked under FairSpec): after a command cycle has ended -- by
\* success, blank transcript, stop phrase, routing failure or dispatch
\* failure -- run() has not been left by an exception, and whenever a cycle is
\* running, self.processing is eventually False again (or the process has
\* ended).
C20_CycleEndClearsFlag ==
    /\ [](CycleOver => main_pc # "crashed")
    /\ (NumInCycle > 0) ~> (~processing \/ ~Alive)

\* The physical keys that produce a required modifier.
RequiredModifierKeys == {"cmd_l", "cmd_r", "shift_l"}

\* Every required modifier (cmd by either of its keys, shift) and the
\* trigger key j are held down.
HotkeyHeld(down) ==
    /\ "kj" \in down
    /\ "shift_l" \in down
    /\ "cmd_l" \in down \/ "cmd_r" \in down

\* The last event delivered to the gate was a key-down.
KeyDownStep == Len(key_hist') = Len(key_hist) + 1 /\ key_hist'[Len(key_hist')][1] = "press"

\* C21 (checked under SpecGate): from Idle, any key-down event after which all
\* required modifier keys and the trigger key are held moves the gate to
\* Armed and fires on_activate, also when the trigger key went down before
\* the last required modifier.
C21_HotkeyHeldActivates ==
    [][ (~use_fn /\ KeyDownStep /\ ~is_active /\ HotkeyHeld(held'))
            => (is_active' /\ cb_log' = Append(cb_log, "activate")) ]_vars

\* The physical keys of the hotkey: the trigger key and the keys mapped to a
\* required modifier.
HotkeyKeys == RequiredModifierKeys \cup {"kj"}

\* C22 (checked under SpecGate): while Armed, the gate returns to Idle, firing
\* on_deactivate, exactly when the trigger key or a key mapped to a required
\* modifier is released; any other event leaves it Armed and fires nothing.
\* While Idle, an event of a key outside the hotkey fires nothing and only
\* updates the pressed-key set.
C22_OnlyHotkeyReleaseDisarms ==
    [][ (~use_fn /\ Len(key_hist') = Len(key_hist) + 1) =>
          LET ev == key_hist'[Len(key_hist')]
              hotkey_release == ev[1] = "release" /\ ev[2] \in HotkeyKeys
          IN  /\ is_active =>
                    /\ is_active' = ~hotkey_release
                    /\ cb_log' = IF hotkey_release THEN Append(cb_log, "deactivate")
                                                   ELSE cb_log
              /\ (~is_active /\ ev[2] \notin HotkeyKeys) =>
                    /\ ~is_active'
                    /\ cb_log' = cb_log
                    /\ pressed_keys' = IF ev[1] = "press"
                                       THEN pressed_keys \cup {KeyValue(ev[2], held')}
                                       ELSE pressed_keys \ {KeyValue(ev[2], held)} ]_vars

\* The gate was armed by cmd, shift, j; then another letter was pressed and
\* released, and the gate is still Armed with one callback fired.
C22_OtherKeyWhileArmed ==
    /\ HotkeyPressed
    /\ Len(key_hist) = 5
    /\ key_hist[4] = <<"press", "kk">>
    /\ key_hist[5] = <<"release", "kk">>
    /\ is_active
    /\ cb_log = <<"activate">>

\* The names of the modifiers whose keys are held down.
HeldModifiers(down) == _get_current_modifiers({KeyValue(pk, down) : pk \in down})

\* C23 (checked under SpecGate): on_activate fires only on a key-down of the
\* trigger key at which the set of modifier names held equals the required
\* set exactly; with an additional modifier held, or a required one missing,
\* a trigger key-down fires nothing.
C23_ExactModifierSet ==
    [][ (~use_fn /\ Len(key_hist') = Len(key_hist) + 1) =>
          LET ev == key_hist'[Len(key_hist')]
          IN  /\ cb_log' = Append(cb_log, "activate") =>
                    /\ ev = <<"press", "kj">>
                    /\ HeldModifiers(held') = required_modifiers
              /\ (ev = <<"press", "kj">> /\ HeldModifiers(held') # required_modifiers) =>
                    /\ cb_log' = cb_log
                    /\ is_active' = is_active ]_vars

\* cmd, shift and alt are held and the trigger key went down: nothing fired.
C23_ExtraModifierHeld ==
    /\ ~use_fn
    /\ Len(key_hist) = 4
    /\ key_hist[4] = <<"press", "kj">>
    /\ held = {"cmd_l", "shift_l", "alt_l", "kj"}
    /\ cb_log = <<>>
    /\ ~is_active

\* The frame handed to process_frame in this step.
FedFrame == vad_fed'[Len(vad_fed')]

\* A call of process_frame takes place in this step.
FrameStep == Len(vad_fed') = Len(vad_fed) + 1

\* The fraction of voiced frames among the frames held in dq exceeds
\* speech_threshold.
VoicedFractionExceeds(dq) ==
    NumVoiced(dq) * speech_threshold_den > speech_threshold_num * Len(dq)

\* C24 (checked under SpecVAD): while not triggered, a frame triggers the
\* segmenter exactly when, with that frame added, the fraction of voiced
\* frames among the frames held in the ring buffer exceeds the threshold,
\* also while the buffer holds fewer than num_padding_frames frames; the
\* buffer's contents then become the start of the segment.
C24_TriggersOnVoicedFraction ==
    [][ (FrameStep /\ ~triggered) =>
          LET rb == DequeAppend(ring_buffer, FedFrame)
          IN  /\ triggered' <=> VoicedFractionExceeds(rb)
              /\ triggered' => voiced_frames' = rb ]_vars

\* All the segments returned so far, one after the other.
RECURSIVE Flatten(_)
Flatten(segments) ==
    IF segments = <<>> THEN <<>> ELSE Head(segments) \o Flatten(Tail(segments))

\* The frames of ids are in arrival order, none twice.
InArrivalOrder(ids) == \A i \in 1..(Len(ids) - 1) : ids[i] < ids[i + 1]

\* The frames of ids are consecutive frames of the stream: none was dropped.
Consecutive(ids) == \A i \in 1..(Len(ids) - 1) : ids[i + 1] = ids[i] + 1

\* C25 (checked under SpecVAD): a segment is the ring buffer's frames at the
\* trigger, the triggering frame included, followed by every frame received
\* while triggered up to and including the frame that ends it, in arrival
\* order and with no frame dropped or duplicated; after it is returned the
\* ring buffer and the accumulated frames are empty, and no frame is in two
\* segments.
C25_SegmentIsPaddingThenFrames ==
    /\ [](/\ \A k \in 1..Len(vad_segments) : Consecutive(vad_segments[k])
          /\ InArrivalOrder(Flatten(vad_segments)))
    /\ [][ FrameStep =>
             /\ (~triggered /\ triggered') =>
                    voiced_frames' = DequeAppend(ring_buffer, FedFrame)
             /\ (triggered /\ triggered') =>
                    voiced_frames' = Append(voiced_frames, FedFrame)
             /\ vad_ret' # NoSegment =>
                    /\ vad_ret'.data = Join(Append(voiced_frames, FedFrame))
                    /\ ring_buffer' = <<>>
                    /\ voiced_frames' = <<>> ]_vars

\* Two segments were returned; the frames that fell out of the ring buffer
\* before each trigger are in neither.
C25_TwoSegments ==
    /\ Len(vad_segments) = 2
    /\ vad_segments[1] = <<2, 3, 4, 5, 6, 7>>
    /\ vad_segments[2] = <<9, 10, 11, 12, 13, 14>>
    /\ ring_buffer = <<>>
    /\ voiced_frames = <<>>

\* The ids of the frames of segment.
FrameIds(segment) == {segment[i] : i \in 1..Len(segment)}

\* C26 (checked under SpecVAD): reset returns nothing and leaves the
\* segmenter as it was constructed -- not triggered, empty ring buffer, no
\* accumulated frames -- and no frame received before a reset is in a segment
\* returned after it.
C26_ResetDiscards ==
    /\ [][ vad_reset' # vad_reset =>
             /\ ~triggered' /\ ring_buffer' = <<>> /\ voiced_frames' = <<>>
             /\ UNCHANGED <<vad_ret, vad_segments, vad_fed>> ]_vars
    /\ [](\A k \in 1..Len(vad_segments) :
             LET segment == vad_segments[k]
             IN  segment[Len(segment)] > vad_reset.at =>
                    \A id \in FrameIds(segment) :
                        id > vad_reset.at /\ id \notin FrameIds(vad_reset.dropped))

\* reset was called on a triggered segmenter holding four frames, and a
\* segment was returned afterwards.
C26_SegmentAfterReset ==
    /\ vad_reset = [at |-> 5, dropped |-> <<2, 3, 4, 5>>]
    /\ vad_segments = << <<7, 8, 9, 10, 11, 12>> >>
    /\ vad_ret # NoSegment

\* The number of voiced frames among the frames of segment.
VoicedIn(segment) ==
    Cardinality({i \in 1..Len(segment) : vad_fed[segment[i]].speech})

\* The end condition fired immediately after the start: the segment just
\* returned holds no more voiced frames than it takes to trigger, so every
\* frame received after the trigger was unvoiced.
EndedRightAfterStart ==
    /\ vad_ret # NoSegment
    /\ OverThreshold(VoicedIn(vad_ret.data))
    /\ ~OverThreshold(VoicedIn(vad_ret.data) - 1)

\* C27 (checked under SpecVAD): when the end condition fires immediately
\* after the start, the segment that is returned is shorter than one padding
\* window: it has fewer than num_padding_frames frames.
C27_ShortSegmentEmitted ==
    EndedRightAfterStart => Len(vad_ret.data) < num_padding_frames

\* The status message _build_quick_response templates for a fast-path action
\* from the label or the query it extracts from the command.
QuickMessage(action_type, command) ==
    CASE action_type = "SAVE_TO_MEMORY" ->
           "Saving as " \o OrElse(ExtractLabel(command), "note")
      [] action_type = "SEARCH_MEMORY" -> "Searching for " \o ExtractQuery(command)
      [] action_type = "DELETE_MEMORY" -> "Deleting " \o ExtractQuery(command)
      [] action_type = "CLEAR_MEMORY" -> "Clearing all memory"
      [] action_type = "STRUCTURE_DATA" ->
           "Converting to " \o
               (IF Contains(LowerStr(command), "json") THEN "json" ELSE "csv")
      [] OTHER -> "Processing..."

\* C28 (checked under SpecRoute): for every command that matches a fast-path
\* rule, whatever its length, route_intent returns a descriptor whose action
\* type is the rule's action and whose message is the status message
\* templated from the extracted label or query, and the LLM is not called.
C28_FastPathReturnsDescriptor ==
    (rt_pc = "routed" /\ quick_classify(rt_command) # None) =>
        /\ rt_result.llm_calls = 0
        /\ rt_result.out.kind = "ok"
        /\ rt_result.out.value.action_type = quick_classify(rt_command)
        /\ rt_result.out.value.message =
               QuickMessage(quick_classify(rt_command), rt_command)

\* The actions whose handler takes the router's content in place of the
\* collaborator's result, with the collaborator of each and what that
\* collaborator returns when it returns a value.
ContentActions == {"STRUCTURE_DATA", "DEBUG_CODE", "REWRITE_TEXT", "TRANSLATE"}

CollaboratorOf(action_type) ==
    CASE action_type = "STRUCTURE_DATA" -> "structure_data"
      [] action_type = "DEBUG_CODE" -> "debug_code"
      [] action_type = "REWRITE_TEXT" -> "rewrite_text"
      [] action_type = "TRANSLATE" -> "translate_text"

CollaboratorResult(action_type) ==
    CollabValue(ex_env,
        CASE action_type = "STRUCTURE_DATA" -> "<structured>"
          [] action_type = "DEBUG_CODE" -> "<fixed code>"
          [] action_type = "REWRITE_TEXT" -> "<rewritten>"
          [] action_type = "TRANSLATE" -> "<translated>")

\* The positions, among the calls of the dispatch, of the calls to fn.
CallsTo(fn) == { i \in 1..Len(ex_result.calls) : ex_result.calls[i].fn = fn }

\* Every text the dispatch wrote to the clipboard is this text, and it handed
\* exactly this text, once, to copy_text_to_clipboard.
OnlyWrote(text) ==
    /\ \A i \in 1..Len(ex_result.clip_writes) :
           ex_result.clip_writes[i] = [kind |-> "text", data |-> text]
    /\ Cardinality(CallsTo("copy_text_to_clipboard")) = 1
    /\ \A i \in CallsTo("copy_text_to_clipboard") : ex_result.calls[i].args = <<text>>
    /\ ex_env.copy_ok => Len(ex_result.clip_writes) = 1

\* C29 (checked under SpecExec): for STRUCTURE_DATA, DEBUG_CODE, REWRITE_TEXT
\* and TRANSLATE dispatched with a text clipboard, a response that carries a
\* non-empty content is copied as it is and the action's collaborator is not
\* called; without content the collaborator is called exactly once and
\* nothing but its result is written (its result, when it returns a non-empty
\* one; nothing, when it returns none or raises).
C29_ContentReplacesCollaborator ==
    (/\ ex_pc = "out"
     /\ ex_response.action_type \in ContentActions
     /\ IsStr(ex_clip)) =>
        LET fn == CollaboratorOf(ex_response.action_type)
            result == CollaboratorResult(ex_response.action_type)
        IN  IF Truthy(ex_response.content)
            THEN /\ CallsTo(fn) = {}
                 /\ OnlyWrote(ex_response.content)
            ELSE /\ Cardinality(CallsTo(fn)) = 1
                 /\ IF ex_env.collab # "raise" /\ Truthy(result)
                    THEN OnlyWrote(result)
                    ELSE /\ ex_result.clip_writes = <<>>
                         /\ CallsTo("copy_text_to_clipboard") = {}

\* A TRANSLATE response with content was dispatched on a text clipboard: the
\* content is on the clipboard and translate_text was not called.
C29_ContentCopied ==
    /\ ex_pc = "out"
    /\ ex_response.action_type = "TRANSLATE"
    /\ ex_response.content = "llm text"
    /\ ex_clip = "clip text"
    /\ ex_result.success
    /\ ex_result.clip_writes = <<[kind |-> "text", data |-> "llm text"]>>
    /\ ex_result.calls = <<Call("copy_text_to_clipboard", <<"llm text">>)>>

\* The dispatched action needs an image or a text and the clipboard holds
\* something else, or nothing.
WrongClipboard ==
    \/ /\ ex_response.action_type \in image_required_actions
       /\ ex_clip # ClipContent("image")
    \/ /\ ex_response.action_type \in text_required_actions
       /\ ex_clip # ClipContent("text")

\* C30 (checked under SpecExec): when execute_action is given an
\* image-requiring or text-requiring action and the clipboard is of the wrong
\* kind or empty, it returns success = false, calls no collaborator and
\* writes nothing to the clipboard.
C30_HandlerRechecksClipboard ==
    (ex_pc = "out" /\ WrongClipboard) =>
        /\ ~ex_result.success
        /\ ex_result.calls = <<>>
        /\ ex_result.clip_writes = <<>>

\* DEBUG_CODE was dispatched with an image on the clipboard and refused.
C30_DebugCodeOnImageRefused ==
    /\ ex_pc = "out"
    /\ ex_response.action_type = "DEBUG_CODE"
    /\ ex_clip = "<Image>"
    /\ ~ex_result.success
    /\ ex_result.message = "Clipboard does not contain text"
    /\ ex_result.calls = <<>>
    /\ ex_result.clip_writes = <<>>

TimesCalled(stage) ==
    Cardinality({ k \in 1..Len(workers[1].trace) : workers[1].trace[k] = stage })

\* The cycle has run the body of _process_audio to its end.
CycleRan == workers[1].pc = "done" /\ workers[1].result # "dropped"

\* C32 as stated (checked under SpecCycle): every cycle calls route_intent
\* once and execute_action once, and writes the clipboard at most once.
C32_EveryCycleRoutesAndDispatches ==
    CycleRan =>
        /\ TimesCalled("route") = 1
        /\ TimesCalled("execute") = 1
        /\ pasteboard.count <= 1

\* C32 as amended (checked under SpecCycle): a cycle calls route_intent at
\* most once and execute_action at most once, and writes the clipboard at
\* most once.  A cycle whose transcript is a command calls route_intent
\* exactly once, and execute_action exactly once when route_intent returned a
\* descriptor and not at all when route_intent failed; a cycle whose
\* transcript is blank or the stop phrase calls neither.
C32_OneDescriptorDispatchedOnce ==
    /\ TimesCalled("route") <= 1
    /\ TimesCalled("execute") <= 1
    /\ pasteboard.count <= 1
    /\ ex_pc = "out" => Len(ex_result.clip_writes) = pasteboard.count
    /\ (CycleRan /\ workers[1].heard = "command") =>
          /\ workers[1].trace =
                IF rt_result.out.kind = "ok" THEN <<"route", "execute">> ELSE <<"route">>
    /\ (CycleRan /\ workers[1].heard # "command") => workers[1].trace = <<>>

\* A cycle routed, dispatched and wrote the clipboard once.
C32_RoutedDispatchedWrote ==
    /\ CycleRan
    /\ workers[1].trace = <<"route", "execute">>
    /\ ex_result.success
    /\ Len(ex_result.clip_writes) = 1
    /\ pasteboard.count = 1

\* The locks thread t holds.
HeldBy(t) ==
    (IF audio_lock = t THEN {"audio_lock"} ELSE {}) \cup
    (IF gate_lock = t THEN {"gate_lock"} ELSE {})

\* The positions of _process_audio at which the next step is a collaborator
\* call: transcribe_audio, self.memory.search and route_intent, execute_action.
CollaboratorPcs == {"transcribe", "route", "execute"}

C34_SharedStateUnderLock ==
    [][ /\ recording' # recording => audio_lock # None
        /\ audio_frames' # audio_frames => audio_lock # None
        /\ audio_seq' # audio_seq => audio_lock = "audio" ]_vars

\* C35 (checked under SpecLocks): once the handler of an activation has
\* returned and until the key is released, the recording is on (so the blocks
\* the callback is delivered are appended), whether or not a command cycle was
\* in flight when the key went down; stop() has not been called.
C35_RecordsWhileKeyHeld ==
    (listener_pc = "down" /\ teardown.calls = 0) => recording

\* C36 (checked under SpecLocks): the audio _stop_recording takes out of the
\* buffer for a cycle is exactly the blocks the callback took for that
\* recording, in the order they arrived: none of them is missing and no block
\* taken before the activation is among them.
C36_AudioIsWhatWasAccepted ==
    listener_pc = "stop_len" => audio_data = accepted

\* fmt = "json" if "json" in command.lower() else "csv"
DetectedFormat(command) == IF Contains(LowerStr(command), "json") THEN "json" ELSE "csv"

\* C37 (checked under SpecCycle): when the fast path classifies the command
\* as STRUCTURE_DATA, the format it detects in the command (json if the
\* command contains "json", csv otherwise) is the target format the handler
\* passes to the structuring collaborator and names in its result.
C37_DetectedFormatDispatched ==
    (/\ ex_pc = "out"
     /\ quick_classify(rt_command) = "STRUCTURE_DATA"
     /\ ex_result.success) =>
        /\ \A k \in DOMAIN ex_result.calls :
              ex_result.calls[k].fn = "structure_data" =>
                  ex_result.calls[k].args[2] = DetectedFormat(rt_command)
        /\ ex_result.message = "Data structured as " \o DetectedFormat(rt_command)

\* The error notifications execute_action emitted.
ErrorNotes ==
    { k \in DOMAIN ex_result.notifications : ex_result.notifications[k][1] = "error" }

\* C38 (checked under SpecExec): a call of execute_action emits at most one
\* notification, and it emits an error notification exactly when it returns
\* success = False.
C38_OneNotificationMatchingOutcome ==
    ex_pc = "out" =>
        /\ Len(ex_result.notifications) <= 1
        /\ (ErrorNotes # {}) <=> ~ex_result.success

\* A handler called its collaborator and the call failed: one error
\* notification and a failed result.
C38_FailedWithOneError ==
    /\ ex_pc = "out"
    /\ ~ex_result.success
    /\ Len(ex_result.calls) > 0
    /\ Len(ex_result.notifications) = 1
    /\ ErrorNotes = {1}

\* The key-listener thread is about to take the gate's lock (a key event is
\* being delivered to _on_press or _on_release).
ListenerAtGate == listener_pc \in {"up", "down"}

\* C39 (checked under SpecLocks): the threads cannot deadlock on the two
\* locks.  Whenever the key listener holds audio_lock under the hotkey gate it
\* already holds the gate's lock (the gate's lock is taken first); the only
\* thread that takes the gate's lock holds no audio_lock when it comes to take
\* it; the audio callback and the workers never hold the gate's lock; and
\* while the process is alive the holder of audio_lock can always take its
\* next step and release it, so no thread waits for it for ever.
C39_NoDeadlock ==
    /\ gate_lock \in {None, "listener"}
    /\ audio_lock \in {None, "listener", "audio"}
    /\ (audio_lock = "listener" /\ ~use_fn) => gate_lock = "listener"
    /\ ListenerAtGate => HeldBy("listener") = {}
    /\ audio_lock = "listener" => listener_pc \in {"start_body", "stop_body"}
    /\ audio_lock = "audio" => audio_pc = "append"
    /\ (Alive /\ audio_lock = "listener") => ENABLED (StartBody \/ StopBody)
    /\ (Alive /\ audio_lock = "audio") => ENABLED AudioAppend

\* The key listener holds the gate's lock and waits for audio_lock, which the
\* audio callback holds.
C39_ListenerWaitsForCallback ==
    /\ gate_lock = "listener"
    /\ listener_pc \in {"start_lock", "stop_lock"}
    /\ audio_lock = "audio"

\* C40 (checked under SpecMonitor): while the clipboard is as it was when
\* get_content(force_refresh=False) was called last, what that call returned
\* is what the clipboard holds: the cache is never stale, whatever external
\* changes and calls of has_changed() and get_content() came before.
C40_CacheNeverStale ==
    (/\ mon_call.op = "get_content"
     /\ ~mon_call.force_refresh
     /\ mon_call.at = pasteboard.count) =>
        mon_ret = get_clipboard_content(pasteboard)


====
